---- MODULE Spec2Model ----
(***************************************************************************)
(* A model of frawk's parallel output writer (src/runtime/writers.rs) and  *)
(* of the parallel driver Generator::run_main (src/llvm/mod.rs).           *)
(*                                                                         *)
(* Writer: one output file, its owner thread (receive_thread), its bounded *)
(* channel, and NumClients client threads that each hold their own         *)
(* FileHandle on that file (obtained from clones of one Registry).         *)
(***************************************************************************)
EXTENDS Integers, Sequences, FiniteSets, TLC

(***************************************************************************)
(* Bounds of the model.  BUFFER_SIZE, IO_CHAN_SIZE, MAX_BATCH_SIZE and     *)
(* MAX_BATCH_BYTES carry the names of the program's constants but are      *)
(* scaled down (8 << 10, 16, 1 << 10 and 1 << 20 in writers.rs:59, 56,     *)
(* 600, 599) so that sealing, a full channel and a cut batch happen within *)
(* a few short writes.                                                     *)
(***************************************************************************)
NumClients == 2
MaxOps == 5
MaxWrite == 1
BUFFER_SIZE == 2
IO_CHAN_SIZE == 2
MAX_BATCH_SIZE == 2
MAX_BATCH_BYTES == 3
\* run_main: the largest num_workers tried.
MaxWorkers == 3

Clients == 1..NumClients
\* Addresses of the Box<WriteGuard>s one handle can own at a time.
GuardIds == 1..(MaxOps + 2)

ONGOING == "ONGOING"
OK == "OK"
ERROR == "ERROR"
\* Marks memory that holds no WriteGuard (never allocated, or freed).
FREE == "FREE"

NoError == "None"
Ok == "Ok"
POISON_MSG == "poisoned fake file!"
BAD_SHUTDOWN_MSG == "internal error: (writer?) thread did not shut down cleanly"

VARIABLES
    \* ---- the sink (testing::FakeFile) ----
    poison,      \* FakeFileInner.poison
    data,        \* FakeFileInner.data: the file's content, bytes <<client, seq>>
    issued,      \* every byte ever handed to the sink, in order (never truncated)
    \* ---- RawHandle ----
    chan,        \* the bounded channel of Requests
    error,       \* the shared error slot
    \* ---- the owner thread (receive_thread / receive_loop) ----
    opc,         \* "recv" | "try_recv" | "clear" | "assert_failed" | "crashed"
    batch,       \* WriteBatch.requests
    held,        \* the head request of batch has its code set and is not yet dropped
    writer,      \* receive_loop's `writer` is Some
    \* ---- each client's FileHandle ----
    pc,          \* position of the client in its current call
    op,          \* the call in progress or, when idle, the last call made
    arg,         \* the arguments of the write in progress: [n, append]
    ret,         \* what the last completed call returned
    cur_batch,   \* address of the current WriteGuard
    guards,      \* in-flight FIFO of guard addresses
    old_guards,  \* pool of recycled guard addresses
    heap,        \* the WriteGuards by address: [data, status, append]
    fstat,       \* status of the handle's outstanding Flush request, or "none"
    \* ---- history of the calls made ----
    wcount,      \* number of bytes the client has passed to write
    closedAt,    \* wcount at the client's last close call, -1 if none
    trueAt,      \* wcount after the client's last write with append=true, 0 if none
    falseAt,     \* wcount after the client's last write with append=false, 0 if none
    nops,        \* total number of write/flush/close calls made by all clients
    \* ---- Generator::run_main ----
    cfg,         \* [num_workers, nreads, begin, main_loop, end]
    mpc,         \* position of the main thread in run_main
    pid,         \* rt.core.vars.pid of the main runtime
    stdout_flushed,
    sender_live, \* the main thread still holds its Sender
    wst,         \* per shard i: [st, pid], st: "unspawned" | "running" | "returned" |
                 \* "sent" | "panicked"; pid: the pid of the worker's runtime
    results,     \* the bounded result channel: shard indices in arrival order
    combined,    \* shard indices whose result was combined, in order
    log,         \* stages run on the main runtime, in order
    \* ---- lexer::Tokenizer ----
    text,        \* Tokenizer.text as UTF-8 bytes
    tcur,        \* Tokenizer.cur, a byte offset into text
    prev_tok,    \* kind of Tokenizer.prev_tok, "None" before the first token
    toks,        \* the spanned tokens returned so far: [l, tok, r]
    lres,        \* what the last call of next returned
    \* ---- lexer::parse_string_literal ----
    lit,         \* the literal body handed to parse_string_literal, as chars
    parsed,      \* the bytes pushed to the buffer, or "unparsed"
    \* ---- llvm::Generator ----
    gen,         \* the generator under construction: the typed IR it is given,
                 \* the functions lowered so far, the printf wrappers, the result
    run,         \* one execution of a generated function: position, values,
                 \* memory cells and reference counts
    \* ---- writers::Registry and its Root ----
    registry     \* the Root's handle table and mutex, the owner threads spawned,
                 \* and each thread's Registry and position in get_handle

svars == <<poison, data, issued>>
ovars == <<chan, error, opc, batch, held, writer>>
hvars == <<cur_batch, guards, old_guards, heap>>
dvars == <<wcount, closedAt, trueAt, falseAt, nops>>
cvars == <<pc, op, arg, ret, fstat>>
wvars == <<svars, ovars, hvars, dvars, cvars>>
pvars == <<cfg, mpc, pid, stdout_flushed, sender_live, wst, results, combined, log>>
lvars == <<text, tcur, prev_tok, toks, lres>>
qvars == <<lit, parsed>>
gvars == <<gen, run>>
rvars == <<registry>>
xvars == <<lvars, qvars, gvars, rvars>>
vars == <<wvars, pvars, xvars>>

----------------------------------------------------------------------------
(* Sequence helpers *)

RECURSIVE Flatten(_)
Flatten(ss) == IF ss = <<>> THEN <<>> ELSE Head(ss) \o Flatten(Tail(ss))

Range(s) == {s[i] : i \in 1..Len(s)}

Last(s) == s[Len(s)]
Front(s) == SubSeq(s, 1, Len(s) - 1)

----------------------------------------------------------------------------
(* WriteGuard *)

NoGuard == [data |-> <<>>, status |-> FREE, append |-> FALSE]

\* WriteGuard::default(): an empty buffer, ErrorCode 0 (ONGOING), append false.
DefaultGuard == [data |-> <<>>, status |-> ONGOING, append |-> FALSE]

\* A faulty extend: the buffer is replaced, not extended.
extend_replacing(g, bs, append) == [g EXCEPT !.data = bs, !.append = append]

\* WriteGuard::extend: append the bytes, remember the append flag of this call.
extend(g, bs, append) == [g EXCEPT !.data = @ \o bs, !.append = append]

\* WriteGuard::activate
activate(g) == DefaultGuard

\* WriteGuard::request / Request::flush / Request::Close
WriteReq(c, a, g) ==
    [type |-> "Write", c |-> c, g |-> a, append |-> g.append, size |-> Len(g.data)]
FlushReq(c) == [type |-> "Flush", c |-> c, g |-> 0, append |-> FALSE, size |-> 0]
CloseReq(c) == [type |-> "Close", c |-> c, g |-> 0, append |-> FALSE, size |-> 0]

\* FileHandle::read_error
read_error == IF error # NoError THEN error ELSE BAD_SHUTDOWN_MSG

\* RawHandle::into_handle: the handle starts with one default guard at address 1.
InitHeap == [a \in GuardIds |-> IF a = 1 THEN DefaultGuard ELSE NoGuard]

----------------------------------------------------------------------------
(* FileHandle: client side *)

\* The loop of FileHandle::clear_guards over the statuses of the in-flight
\* FIFO, from 0-based index i with done_count = done.
RECURSIVE scan_guards(_, _, _)
scan_guards(sts, i, done) ==
    IF i >= Len(sts) THEN [err |-> FALSE, done |-> done]
    ELSE IF sts[i + 1] = ONGOING THEN [err |-> FALSE, done |-> done]
    ELSE IF sts[i + 1] = OK THEN scan_guards(sts, i + 1, i)
    ELSE [err |-> TRUE, done |-> done]

\* The second loop of clear_guards: pop n guards from the front, keep each in
\* old_guards unless the pool is full, in which case the guard is dropped.
RECURSIVE pop_done(_, _, _, _)
pop_done(n, gs, olds, h) ==
    IF n = 0 THEN [guards |-> gs, old |-> olds, heap |-> h]
    ELSE IF Len(olds) < IO_CHAN_SIZE
         THEN pop_done(n - 1, Tail(gs), Append(olds, Head(gs)), h)
         ELSE pop_done(n - 1, Tail(gs), olds, [h EXCEPT ![Head(gs)] = NoGuard])

\* FileHandle::clear_guards on (guards, old_guards, heap) of one handle.
clear_guards(gs, olds, h) ==
    LET r == scan_guards([i \in 1..Len(gs) |-> h[gs[i]].status], 0, 0)
        p == pop_done(r.done, gs, olds, h)
    IN  IF r.err
        THEN [err |-> TRUE, guards |-> gs, old |-> olds, heap |-> h]
        ELSE [err |-> FALSE, guards |-> p.guards, old |-> p.old, heap |-> p.heap]

\* A faulty clear_batch: it returns Ok(()) whatever the batch holds.
clear_batch_skipping(c) ==
    [out |-> "skip", guards |-> guards[c], old |-> old_guards[c], heap |-> heap[c]]

\* FileHandle::clear_batch up to (not including) the send:
\* "skip" (empty batch), "err" (clear_guards failed) or "send".
clear_batch_pre(c) ==
    LET r == clear_guards(guards[c], old_guards[c], heap[c])
    IN  IF Len(heap[c][cur_batch[c]].data) = 0
        THEN [out |-> "skip", guards |-> guards[c], old |-> old_guards[c], heap |-> heap[c]]
        ELSE IF r.err
        THEN [out |-> "err", guards |-> guards[c], old |-> old_guards[c], heap |-> heap[c]]
        ELSE [out |-> "send", guards |-> r.guards, old |-> r.old, heap |-> r.heap]

InUse(c) == {cur_batch[c]} \cup Range(guards[c]) \cup Range(old_guards[c])

\* FileHandle::guard: recycle the last guard of old_guards, or box a new one.
guard(c) ==
    IF old_guards[c] # <<>>
    THEN [addr |-> Last(old_guards[c]), old |-> Front(old_guards[c]),
          g |-> activate(heap[c][Last(old_guards[c])])]
    ELSE [addr |-> CHOOSE a \in GuardIds \ InUse(c) :
                        \A b \in GuardIds \ InUse(c) : a <= b,
          old |-> old_guards[c], g |-> DefaultGuard]

\* Dropping Box<WriteGuard>s: does an assertion of WriteGuard::drop fail?
DropAsserts(h, addrs) == \E a \in addrs : h[a].status = ONGOING

\* impl Drop for FileHandle, after its flush: cur_batch.status.set_ok(), then
\* old_guards, guards and cur_batch are dropped.
DropFields(c, gs) ==
    /\ pc' = [pc EXCEPT ![c] =
                IF DropAsserts(heap[c], Range(gs) \cup Range(old_guards[c]))
                THEN "assert_failed" ELSE "done"]
    /\ heap' = [heap EXCEPT ![c] = [a \in GuardIds |-> NoGuard]]
    /\ guards' = [guards EXCEPT ![c] = <<>>]
    /\ old_guards' = [old_guards EXCEPT ![c] = <<>>]
    /\ UNCHANGED cur_batch

ReceiverAlive == opc \notin {"assert_failed", "crashed"}

\* The n bytes of a write call of handle c after its first k bytes, each
\* tagged with its place in the handle's byte stream and the call's flag.
Str(k, n, append) == [j \in 1..n |-> [s |-> k + j, a |-> append]]

\* FileHandle::write of n bytes, up to its first send.
Write(c, n, append) ==
    LET cur == heap[c][cur_batch[c]]
        r == clear_batch_pre(c)
        bs == Str(wcount[c], n, append)
        seal == Len(bs) + Len(cur.data) > BUFFER_SIZE
    IN  /\ pc[c] = "idle" /\ nops < MaxOps
        /\ op' = [op EXCEPT ![c] = "write"]
        /\ arg' = [arg EXCEPT ![c] = [n |-> n, append |-> append]]
        /\ nops' = nops + 1
        /\ wcount' = [wcount EXCEPT ![c] = @ + n]
        /\ trueAt' = [trueAt EXCEPT ![c] = IF append THEN wcount[c] + n ELSE @]
        /\ falseAt' = [falseAt EXCEPT ![c] = IF append THEN @ ELSE wcount[c] + n]
        /\ IF seal /\ r.out = "err"
           THEN /\ ret' = [ret EXCEPT ![c] = read_error]
                /\ UNCHANGED <<pc, hvars>>
           ELSE IF seal /\ r.out = "send"
           THEN /\ pc' = [pc EXCEPT ![c] = "send_write"]
                /\ guards' = [guards EXCEPT ![c] = r.guards]
                /\ old_guards' = [old_guards EXCEPT ![c] = r.old]
                /\ heap' = [heap EXCEPT ![c] = r.heap]
                /\ UNCHANGED <<ret, cur_batch>>
           ELSE /\ heap' = [heap EXCEPT ![c][cur_batch[c]] = extend(cur, bs, append)]
                /\ ret' = [ret EXCEPT ![c] = Ok]
                /\ UNCHANGED <<pc, cur_batch, guards, old_guards>>
        /\ UNCHANGED <<svars, ovars, fstat, closedAt, pvars, xvars>>

\* FileHandle::flush, FileHandle::close and impl Drop for FileHandle, up to
\* their first send.  o is "flush", "close" or "drop".
Call(c, o) ==
    LET r == clear_batch_pre(c)
    IN  /\ pc[c] = "idle"
        /\ o = "drop" \/ nops < MaxOps
        /\ op' = [op EXCEPT ![c] = o]
        /\ nops' = IF o = "drop" THEN nops ELSE nops + 1
        /\ closedAt' = [closedAt EXCEPT ![c] = IF o = "close" THEN wcount[c] ELSE @]
        /\ IF r.out = "err"
           THEN /\ ret' = [ret EXCEPT ![c] = read_error]
                /\ IF o = "drop" THEN DropFields(c, guards[c])
                   ELSE UNCHANGED <<pc, hvars>>
           ELSE /\ pc' = [pc EXCEPT ![c] =
                        IF r.out = "send" THEN "send_write"
                        ELSE IF o = "close" THEN "send_close" ELSE "send_flush"]
                /\ guards' = [guards EXCEPT ![c] = r.guards]
                /\ old_guards' = [old_guards EXCEPT ![c] = r.old]
                /\ heap' = [heap EXCEPT ![c] = r.heap]
                /\ UNCHANGED <<ret, cur_batch>>
        /\ UNCHANGED <<svars, ovars, arg, fstat, wcount, trueAt, falseAt, pvars, xvars>>

Flush(c) == Call(c, "flush")
Close(c) == Call(c, "close")
Drop(c) == Call(c, "drop")

\* The rest of clear_batch: take the next guard, send the Write request for
\* the current one, swap, push the sealed guard on the in-flight FIFO; then
\* the caller goes on (write extends the new batch).
SendWrite(c) ==
    LET n == guard(c)
        cur == heap[c][cur_batch[c]]
        bs == Str(wcount[c] - arg[c].n, arg[c].n, arg[c].append)
        next == IF op[c] = "write" THEN extend(n.g, bs, arg[c].append) ELSE n.g
    IN  /\ pc[c] = "send_write"
        /\ ReceiverAlive /\ Len(chan) < IO_CHAN_SIZE
        /\ chan' = Append(chan, WriteReq(c, cur_batch[c], cur))
        /\ guards' = [guards EXCEPT ![c] = Append(@, cur_batch[c])]
        /\ old_guards' = [old_guards EXCEPT ![c] = n.old]
        /\ cur_batch' = [cur_batch EXCEPT ![c] = n.addr]
        /\ heap' = [heap EXCEPT ![c][n.addr] = next]
        /\ pc' = [pc EXCEPT ![c] =
                    IF op[c] = "write" THEN "idle"
                    ELSE IF op[c] = "close" THEN "send_close" ELSE "send_flush"]
        /\ ret' = [ret EXCEPT ![c] = IF op[c] = "write" THEN Ok ELSE @]
        /\ UNCHANGED <<svars, error, opc, batch, held, writer, op, arg, fstat, dvars, pvars, xvars>>

\* flush: send the Flush request.
SendFlush(c) ==
    /\ pc[c] = "send_flush"
    /\ ReceiverAlive /\ Len(chan) < IO_CHAN_SIZE
    /\ chan' = Append(chan, FlushReq(c))
    /\ fstat' = [fstat EXCEPT ![c] = ONGOING]
    /\ pc' = [pc EXCEPT ![c] = "wait"]
    /\ UNCHANGED <<svars, error, opc, batch, held, writer, op, arg, ret, hvars, dvars, pvars, xvars>>

\* close: send the Close request and return Ok.
SendClose(c) ==
    /\ pc[c] = "send_close"
    /\ ReceiverAlive /\ Len(chan) < IO_CHAN_SIZE
    /\ chan' = Append(chan, CloseReq(c))
    /\ ret' = [ret EXCEPT ![c] = Ok]
    /\ pc' = [pc EXCEPT ![c] = "idle"]
    /\ UNCHANGED <<svars, error, opc, batch, held, writer, op, arg, fstat, hvars, dvars, pvars, xvars>>

\* sender.send(req).unwrap() when the receiver is gone.
SendFails(c) ==
    /\ pc[c] \in {"send_write", "send_flush", "send_close"}
    /\ ~ReceiverAlive
    /\ pc' = [pc EXCEPT ![c] = "send_failed"]
    /\ UNCHANGED <<svars, ovars, op, arg, ret, fstat, hvars, dvars, pvars, xvars>>

\* flush after n.1.wait(): guards.clear(), then the status of the request
\* decides the result; in a drop the handle's fields are dropped next.
FlushWait(c) ==
    /\ pc[c] = "wait"
    /\ fstat[c] \in {OK, ERROR}
    /\ ret' = [ret EXCEPT ![c] = IF fstat[c] = ERROR THEN read_error ELSE Ok]
    /\ fstat' = [fstat EXCEPT ![c] = "none"]
    /\ IF DropAsserts(heap[c], Range(guards[c]))
       THEN /\ pc' = [pc EXCEPT ![c] = "assert_failed"]
            /\ heap' = [heap EXCEPT ![c] =
                          [a \in GuardIds |-> IF a \in Range(guards[c]) THEN NoGuard ELSE @[a]]]
            /\ guards' = [guards EXCEPT ![c] = <<>>]
            /\ UNCHANGED <<cur_batch, old_guards>>
       ELSE IF op[c] = "drop"
       THEN DropFields(c, <<>>)
       ELSE /\ pc' = [pc EXCEPT ![c] = "idle"]
            /\ heap' = [heap EXCEPT ![c] =
                          [a \in GuardIds |-> IF a \in Range(guards[c]) THEN NoGuard ELSE @[a]]]
            /\ guards' = [guards EXCEPT ![c] = <<>>]
            /\ UNCHANGED <<cur_batch, old_guards>>
    /\ UNCHANGED <<svars, ovars, op, arg, dvars, pvars, xvars>>

----------------------------------------------------------------------------
(* WriteBatch and the owner thread *)

IsWrite(r) == r.type = "Write"

\* WriteBatch fields other than `requests`, which they are kept in step with.
n_writes(b) == Len(SelectSeq(b, IsWrite))
has_flush(b) == \E i \in 1..Len(b) : b[i].type = "Flush"
has_close(b) == \E i \in 1..Len(b) : b[i].type = "Close"

\* receive_loop's batch_bytes: the sizes of the requests taken so far.
RECURSIVE batch_bytes(_)
batch_bytes(b) == IF b = <<>> THEN 0 ELSE Head(b).size + batch_bytes(Tail(b))

\* WriteBatch::push: record the request, report whether it ends the batch.
push(b, req) == [batch |-> Append(b, req), cut |-> has_flush(Append(b, req)) \/ has_close(Append(b, req))]

\* A faulty is_append: the file is always reopened in append mode.
is_append_always(b) == TRUE

\* WriteBatch::is_append: the append flag of the first Write of the batch.
is_append(b) ==
    IF n_writes(b) = 0 THEN FALSE ELSE Head(SelectSeq(b, IsWrite)).append

\* The io_vec of the batch: the bytes its Write requests point at, read
\* through the data pointers when the batch is issued.
io_vec(b) ==
    LET ws == SelectSeq(b, IsWrite)
    IN  Flatten([i \in 1..Len(ws) |->
                    [j \in 1..Len(heap[ws[i].c][ws[i].g].data) |->
                        <<ws[i].c, heap[ws[i].c][ws[i].g].data[j].s>>]])

\* testing::FakeFs::build / FakeFile::reopen: the content after opening.
build(append) == IF append THEN data ELSE <<>>

\* FakeFile::write_vectored and FakeFile::flush fail when the file is
\* poisoned; write_all_vectored makes no call for an empty io_vec.
issue_fails(b) == poison /\ (n_writes(b) > 0 \/ has_flush(b) \/ has_close(b))

\* A faulty receive_loop: the file is (re)opened for every batch that
\* meets a closed writer, with or without a Write.
Process_reopening(b) ==
    /\ batch' = b
    /\ held' = FALSE
    /\ opc' = "clear"
    /\ LET opened == IF writer THEN data ELSE build(is_append(b))
       IN  IF issue_fails(b)
           THEN /\ data' = opened
                /\ error' = POISON_MSG
                /\ writer' = FALSE
                /\ UNCHANGED issued
           ELSE /\ data' = opened \o io_vec(b)
                /\ issued' = issued \o io_vec(b)
                /\ writer' = ~has_close(b)
                /\ UNCHANGED error

\* receive_loop, from the end of the batching loop: the no-op for a
\* flush/close-only batch on a closed writer, else (re)open and
\* WriteBatch::issue; on Err receive_thread installs the error.  The
\* requests are then completed one by one (opc = "clear").
Process(b) ==
    /\ batch' = b
    /\ held' = FALSE
    /\ opc' = "clear"
    /\ IF ~writer /\ n_writes(b) = 0
       THEN UNCHANGED <<writer, error, data, issued>>
       ELSE LET opened == IF writer THEN data ELSE build(is_append(b))
            IN  IF issue_fails(b)
                THEN /\ data' = opened
                     /\ error' = POISON_MSG
                     /\ writer' = FALSE
                     /\ UNCHANGED issued
                ELSE /\ data' = opened \o io_vec(b)
                     /\ issued' = issued \o io_vec(b)
                     /\ writer' = ~has_close(b)
                     /\ UNCHANGED error

\* receiver.recv() returning a request: receive_loop's first request of a
\* batch, or receive_thread's error loop, which completes it with ERROR.
OwnerRecv ==
    /\ opc = "recv" /\ chan # <<>>
    /\ chan' = Tail(chan)
    /\ IF error # NoError
       THEN /\ batch' = <<Head(chan)>>
            /\ opc' = "clear"
            /\ held' = FALSE
            /\ UNCHANGED <<writer, error, data, issued>>
       ELSE IF push(batch, Head(chan)).cut
       THEN Process(push(batch, Head(chan)).batch)
       ELSE /\ batch' = push(batch, Head(chan)).batch
            /\ opc' = "try_recv"
            /\ UNCHANGED <<held, writer, error, data, issued>>
    /\ UNCHANGED <<poison, hvars, dvars, cvars, pvars, xvars>>

\* receiver.try_recv() returning a request.
OwnerTryRecv ==
    /\ opc = "try_recv" /\ chan # <<>>
    /\ chan' = Tail(chan)
    /\ LET p == push(batch, Head(chan))
       IN  IF \/ p.cut
              \/ n_writes(p.batch) >= MAX_BATCH_SIZE
              \/ batch_bytes(p.batch) >= MAX_BATCH_BYTES
           THEN Process(p.batch)
           ELSE /\ batch' = p.batch
                /\ UNCHANGED <<opc, held, writer, error, data, issued>>
    /\ UNCHANGED <<poison, hvars, dvars, cvars, pvars, xvars>>

\* receiver.try_recv() finding the channel empty.
OwnerTryRecvEmpty ==
    /\ opc = "try_recv" /\ chan = <<>>
    /\ Process(batch)
    /\ UNCHANGED <<chan, poison, hvars, dvars, cvars, pvars, xvars>>

\* A faulty completion: set_ok even after a failed batch.
Code_always_ok == OK

\* A faulty completion: set_error whether or not an error was installed.
Code_always_error == ERROR

\* The code the owner sets on the requests of the batch: set_ok after a
\* successful issue (or the no-op), set_error once the error is installed.
Code == IF error # NoError THEN ERROR ELSE OK

AfterClear(b) == IF b = <<>> THEN "recv" ELSE "clear"

\* Request::set_code on the next request of the batch.  A Flush is notified
\* and dropped, a Close is dropped; a Write stays held until OwnerDropReq.
\* A Write whose guard was freed is a store to freed memory, undefined
\* behaviour: the owner goes on, or breaks ("crashed").
OwnerSetCode ==
    /\ opc = "clear" /\ ~held /\ batch # <<>>
    /\ LET r == Head(batch)
       IN  IF r.type = "Write"
           THEN \/ /\ heap' = [heap EXCEPT ![r.c][r.g] =
                                 IF @.status = FREE THEN @ ELSE [@ EXCEPT !.status = Code]]
                   /\ held' = TRUE
                   /\ UNCHANGED <<batch, opc, fstat>>
                \/ /\ heap[r.c][r.g].status = FREE
                   /\ opc' = "crashed"
                   /\ UNCHANGED <<heap, held, batch, fstat>>
           ELSE /\ fstat' = [fstat EXCEPT ![r.c] = IF r.type = "Flush" THEN Code ELSE @]
                /\ batch' = Tail(batch)
                /\ opc' = AfterClear(Tail(batch))
                /\ UNCHANGED <<heap, held>>
    /\ UNCHANGED <<svars, chan, error, writer, cur_batch, guards, old_guards,
                   pc, op, arg, ret, dvars, pvars, xvars>>

\* impl Drop for Request (Write): read the status through the pointer and
\* assert it is not ONGOING ("assert_failed").  Reading a guard that was
\* freed is undefined behaviour: the owner goes on, or breaks ("crashed").
OwnerDropReq ==
    /\ opc = "clear" /\ held
    /\ LET st == heap[Head(batch).c][Head(batch).g].status
       IN  \/ /\ st \in {OK, ERROR, FREE}
              /\ opc' = AfterClear(Tail(batch))
           \/ /\ st = ONGOING
              /\ opc' = "assert_failed"
           \/ /\ st = FREE
              /\ opc' = "crashed"
    /\ batch' = Tail(batch)
    /\ held' = FALSE
    /\ UNCHANGED <<svars, chan, error, writer, hvars, dvars, cvars, pvars, xvars>>

----------------------------------------------------------------------------
(* The writer's specification *)

WInit ==
    /\ poison \in BOOLEAN
    /\ data = <<>> /\ issued = <<>>
    /\ chan = <<>> /\ error = NoError
    /\ opc = "recv" /\ batch = <<>> /\ held = FALSE /\ writer = FALSE
    /\ pc = [c \in Clients |-> "idle"]
    /\ op = [c \in Clients |-> "none"]
    /\ arg = [c \in Clients |-> [n |-> 0, append |-> FALSE]]
    /\ ret = [c \in Clients |-> Ok]
    /\ cur_batch = [c \in Clients |-> 1]
    /\ guards = [c \in Clients |-> <<>>]
    /\ old_guards = [c \in Clients |-> <<>>]
    /\ heap = [c \in Clients |-> InitHeap]
    /\ fstat = [c \in Clients |-> "none"]
    /\ wcount = [c \in Clients |-> 0]
    /\ closedAt = [c \in Clients |-> -1]
    /\ trueAt = [c \in Clients |-> 0]
    /\ falseAt = [c \in Clients |-> 0]
    /\ nops = 0

\* run_main is not running.
PIdle ==
    /\ cfg = [num_workers |-> 0, nreads |-> 0, begin |-> FALSE, main_loop |-> FALSE, end |-> FALSE]
    /\ mpc = "off" /\ pid = 0 /\ stdout_flushed = FALSE /\ sender_live = FALSE
    /\ wst = <<>> /\ results = <<>> /\ combined = <<>> /\ log = <<>>

\* No generator exists and no generated function runs.
GIdle == gen = [st |-> "idle"] /\ run = [st |-> "idle"]

\* No Registry exists.
RIdle == registry = [st |-> "idle"]

\* Neither the tokenizer nor parse_string_literal is in use.
XIdle ==
    /\ text = <<>> /\ tcur = 0 /\ prev_tok = "None" /\ toks = <<>> /\ lres = [kind |-> "idle"]
    /\ lit = <<>> /\ parsed = "unparsed"
    /\ GIdle /\ RIdle

WNext ==
    \/ \E c \in Clients, n \in 1..MaxWrite, append \in BOOLEAN : Write(c, n, append)
    \/ \E c \in Clients : Flush(c)
    \/ \E c \in Clients : Close(c)
    \/ \E c \in Clients : Drop(c)
    \/ \E c \in Clients : SendWrite(c)
    \/ \E c \in Clients : SendFlush(c)
    \/ \E c \in Clients : SendClose(c)
    \/ \E c \in Clients : SendFails(c)
    \/ \E c \in Clients : FlushWait(c)
    \/ OwnerRecv
    \/ OwnerTryRecv
    \/ OwnerTryRecvEmpty
    \/ OwnerSetCode
    \/ OwnerDropReq

WriterInit == WInit /\ PIdle /\ XIdle

WriterSpec == WriterInit /\ [][WNext]_vars

----------------------------------------------------------------------------
(* Generator::run_main, Stage::Par *)

saturating_sub(a, b) == IF a > b THEN a - b ELSE 0

\* read_files.try_resize(n).len(): the input is split into at most n shards.
try_resize(n) == 0..n

\* rt.core.shuttle(pid): the pid of the runtime a worker builds from it.
shuttle(p) == p

\* A faulty launch_data: worker pids counted from 1.
launch_pid_from_one(i) == shuttle(i + 1)

\* launch_data: the pid handed to the shuttle of shard i.
launch_pid(i) == shuttle(i + 2)

Shards == DOMAIN wst

\* A faulty channel: room for one result less than there are workers.
bounded_one_short(n) == n - 1

\* bounded(reads.len()): the capacity of the result channel.
bounded(n) == n

\* The parallel path is taken.
Parallel == ~(cfg.num_workers <= 1 \/ cfg.nreads = 0 \/ ~cfg.main_loop)

\* A faulty disconnect: only the main thread's Sender is looked at.
senders_gone_main_only == ~sender_live

\* Every Sender of the result channel is dropped: the main thread's, and
\* each worker's clone, which lives until the worker's closure ends.
senders_gone ==
    /\ ~sender_live
    /\ \A i \in Shards : wst[i].st \in {"sent", "panicked"}

Ran(stage) == \E k \in 1..Len(log) : log[k][1] = stage

PInit ==
    /\ \E n \in 0..MaxWorkers, b \in BOOLEAN, m \in BOOLEAN, e \in BOOLEAN :
        \E r \in try_resize(saturating_sub(n, 1)) :
            cfg = [num_workers |-> n, nreads |-> r, begin |-> b, main_loop |-> m, end |-> e]
    /\ mpc = "start" /\ pid = 0 /\ stdout_flushed = FALSE /\ sender_live = FALSE
    /\ wst = [i \in 0..(cfg.nreads - 1) |-> [st |-> "unspawned", pid |-> -1]]
    /\ results = <<>> /\ combined = <<>> /\ log = <<>>

\* "execute serially": begin, main_loop and end, those present, in turn.
RunSerial ==
    /\ mpc = "start" /\ ~Parallel
    /\ log' = (IF cfg.begin THEN <<<<"begin", pid>>>> ELSE <<>>)
                \o (IF cfg.main_loop THEN <<<<"main_loop", pid>>>> ELSE <<>>)
                \o (IF cfg.end THEN <<<<"end", pid>>>> ELSE <<>>)
    /\ mpc' = "ok"
    /\ UNCHANGED <<xvars, wvars, cfg, pid, stdout_flushed, sender_live, wst, results, combined>>

\* The begin stage, if any, on the main runtime.
RunBegin ==
    /\ mpc = "start" /\ Parallel
    /\ log' = IF cfg.begin THEN Append(log, <<"begin", pid>>) ELSE log
    /\ mpc' = "flush_stdout"
    /\ UNCHANGED <<xvars, wvars, cfg, pid, stdout_flushed, sender_live, wst, results, combined>>

\* flush_stdout: on Err run_main returns Ok(()) at once; on Ok the result
\* channel bounded(reads.len()) and launch_data are built.
FlushStdout ==
    /\ mpc = "flush_stdout"
    /\ \E ok \in BOOLEAN :
        /\ stdout_flushed' = ok
        /\ mpc' = IF ok THEN "spawn" ELSE "ok"
        /\ sender_live' = ok
    /\ UNCHANGED <<xvars, wvars, cfg, pid, wst, results, combined, log>>

\* s.spawn for the next shard of launch_data: the worker builds its runtime
\* from its shuttle and enters main_loop.
Spawn ==
    /\ mpc = "spawn"
    /\ \E i \in Shards :
        /\ wst[i].st = "unspawned"
        /\ \A j \in Shards : j < i => wst[j].st # "unspawned"
        /\ wst' = [wst EXCEPT ![i] = [st |-> "running", pid |-> launch_pid(i)]]
    /\ UNCHANGED <<xvars, wvars, cfg, mpc, pid, stdout_flushed, sender_live, results, combined, log>>

\* After the spawn loop: pid = 1 and the main thread's own main_loop.
MainLoopStart ==
    /\ mpc = "spawn"
    /\ \A i \in Shards : wst[i].st # "unspawned"
    /\ pid' = 1
    /\ log' = Append(log, <<"main_loop", 1>>)
    /\ mpc' = "main_loop"
    /\ UNCHANGED <<xvars, wvars, cfg, stdout_flushed, sender_live, wst, results, combined>>

\* main_func returns on the main thread: pid = 0, mem::drop(sender).
MainLoopReturn ==
    /\ mpc = "main_loop"
    /\ pid' = 0
    /\ sender_live' = FALSE
    /\ mpc' = "recv"
    /\ UNCHANGED <<xvars, wvars, cfg, stdout_flushed, wst, results, combined, log>>

\* receiver.recv() returning a result: rt.core.combine(res).
Combine ==
    /\ mpc = "recv" /\ results # <<>>
    /\ combined' = Append(combined, Head(results))
    /\ results' = Tail(results)
    /\ UNCHANGED <<xvars, wvars, cfg, mpc, pid, stdout_flushed, sender_live, wst, log>>

\* receiver.recv() returning Err (empty and disconnected): the loop ends
\* and the end stage, if any, runs.
RunEnd ==
    /\ mpc = "recv" /\ results = <<>> /\ senders_gone
    /\ log' = IF cfg.end THEN Append(log, <<"end", pid>>) ELSE log
    /\ mpc' = "join"
    /\ UNCHANGED <<xvars, wvars, cfg, pid, stdout_flushed, sender_live, wst, results, combined>>

\* The scope joins its threads; it is Err if one of them panicked, and
\* run_main then returns "failed to execute parallel script".
Join ==
    /\ mpc = "join"
    /\ \A i \in Shards : wst[i].st \in {"sent", "panicked"}
    /\ mpc' = IF \E i \in Shards : wst[i].st = "panicked" THEN "err" ELSE "ok"
    /\ UNCHANGED <<xvars, wvars, cfg, pid, stdout_flushed, sender_live, wst, results, combined, log>>

\* A worker's main_func returns.
WorkerReturn(i) ==
    /\ wst[i].st = "running"
    /\ wst' = [wst EXCEPT ![i].st = "returned"]
    /\ UNCHANGED <<xvars, wvars, cfg, mpc, pid, stdout_flushed, sender_live, results, combined, log>>

\* sender.send(runtime.core.extract_result()); the closure ends and drops
\* the worker's Sender.  The send blocks while the channel is full.
WorkerSend(i) ==
    /\ wst[i].st = "returned"
    /\ Len(results) < bounded(cfg.nreads)
    /\ results' = Append(results, i)
    /\ wst' = [wst EXCEPT ![i].st = "sent"]
    /\ UNCHANGED <<xvars, wvars, cfg, mpc, pid, stdout_flushed, sender_live, combined, log>>

\* A worker panics inside main_func; unwinding drops its Sender.
WorkerPanic(i) ==
    /\ wst[i].st = "running"
    /\ wst' = [wst EXCEPT ![i].st = "panicked"]
    /\ UNCHANGED <<xvars, wvars, cfg, mpc, pid, stdout_flushed, sender_live, results, combined, log>>

\* The writer is not running.
WIdle == WInit /\ ~poison

PNext ==
    \/ RunSerial
    \/ RunBegin
    \/ FlushStdout
    \/ Spawn
    \/ MainLoopStart
    \/ MainLoopReturn
    \/ Combine
    \/ RunEnd
    \/ Join
    \/ \E i \in Shards : WorkerReturn(i)
    \/ \E i \in Shards : WorkerSend(i)
    \/ \E i \in Shards : WorkerPanic(i)

ParInit == PInit /\ WIdle /\ XIdle

ParSpec == ParInit /\ [][PNext]_vars

----------------------------------------------------------------------------
(* lexer.rs: text, chars and bytes                                          *)
(* A text is a sequence of UTF-8 bytes, each byte written as a string: an   *)
(* ASCII char is its own byte, U+E9 is the bytes C3 A9 and U+91CD is the    *)
(* bytes E9 87 8D. Offsets are byte offsets counted from 0, as in the code. *)

MaxLen == 4

LexChars == {"d", "o", "U+E9", "1", ".", "=", "/", "(", ")", "\"", "\\", " ", "\n", "#"}

len_utf8(c) == IF c = "U+E9" THEN 2 ELSE IF c = "U+91CD" THEN 3 ELSE 1

encode_utf8(c) ==
    IF c = "U+E9" THEN <<"C3", "A9">>
    ELSE IF c = "U+91CD" THEN <<"E9", "87", "8D">>
    ELSE <<c>>

as_bytes(cs) == Flatten([i \in 1..Len(cs) |-> encode_utf8(cs[i])])

Strings(alphabet, n) == UNION {[1..k -> alphabet] : k \in 0..n}

byte(t, k) == t[k + 1]
slice(t, a, b) == SubSeq(t, a + 1, b)

is_char_boundary(t, k) ==
    \/ k = 0
    \/ k = Len(t)
    \/ k < Len(t) /\ byte(t, k) \notin {"A9", "87", "8D"}

\* the char that starts at the char boundary k < Len(t)
char_at(t, k) ==
    IF byte(t, k) = "C3" THEN "U+E9"
    ELSE IF byte(t, k) = "E9" THEN "U+91CD"
    ELSE byte(t, k)

Letters == {"a", "b", "d", "f", "n", "o", "q", "r", "t", "v", "U+E9", "U+91CD"}
Digits == {"1"}

is_whitespace(c) == c \in {" ", "\n", "\t", "\r"}
is_xid_start(c) == c \in Letters
is_xid_continue(c) == c \in Letters \cup Digits
is_id_start(c) == c = "_" \/ is_xid_start(c)
is_id_body(c) == c = "_" \/ c = "'" \/ is_xid_continue(c)

\* The rows of the keyword table that can be spelled with LexChars.
KEYWORDS ==
    { [bs |-> <<"(">>, tok |-> "LParen"],
      [bs |-> <<")">>, tok |-> "RParen"],
      [bs |-> <<"\n">>, tok |-> "Newline"],
      [bs |-> <<"d", "o">>, tok |-> "Do"],
      [bs |-> <<"=">>, tok |-> "Assign"],
      [bs |-> <<"/">>, tok |-> "Div"],
      [bs |-> <<"/", "=">>, tok |-> "DivAssign"],
      [bs |-> <<"=", "=">>, tok |-> "EQ"] }

NoTok == [tok |-> "None", len |-> 0]

----------------------------------------------------------------------------
(* lexer.rs: Tokenizer *)

\* Tokenizer.lines: the offsets of the newline bytes, increasing
RECURSIVE lines_from(_, _)
lines_from(t, k) ==
    IF k >= Len(t) THEN <<>>
    ELSE IF byte(t, k) = "\n" THEN <<k>> \o lines_from(t, k + 1)
    ELSE lines_from(t, k + 1)

lines(t) == lines_from(t, 0)

\* slice::binary_search on the sorted `lines`: Ok(i) when lines[i] = ix,
\* else Err(i) with i the number of elements smaller than ix.
binary_search(ls, ix) ==
    [found |-> \E i \in 1..Len(ls) : ls[i] = ix,
     i |-> Cardinality({i \in 1..Len(ls) : ls[i] < ix})]

index_to_loc_line_offset(t, ix) ==
    LET ls == lines(t)
        n == Cardinality({i \in 1..Len(ls) : ls[i] < ix})
        c == IF n = 0 THEN ix ELSE ix - ls[n] - 1
    IN  [line |-> n, col |-> c, offset |-> c]

index_to_loc(t, ix) ==
    LET ls == lines(t)
        r == binary_search(ls, ix)
        line == r.i
    IN  IF line = 0 THEN [line |-> 0, col |-> ix, offset |-> ix]
        ELSE IF r.found THEN [line |-> line - 1, col |-> ix - ls[line] - 1, offset |-> ix]
        ELSE [line |-> line, col |-> ix - ls[line] - 1, offset |-> ix]

\* A faulty keyword: the shortest keyword that is a prefix of the bytes at cur.
keyword_shortest(t, c) ==
    LET remaining == Len(t) - c
        fits == {k \in KEYWORDS : /\ Len(k.bs) <= remaining
                                  /\ slice(t, c, c + Len(k.bs)) = k.bs}
    IN  IF fits = {} THEN NoTok
        ELSE LET k == CHOOSE k \in fits : \A j \in fits : Len(k.bs) <= Len(j.bs)
             IN  [tok |-> k.tok, len |-> Len(k.bs)]

\* the longest keyword that is a prefix of the bytes at cur
keyword(t, c) ==
    LET remaining == Len(t) - c
        fits == {k \in KEYWORDS : /\ Len(k.bs) <= remaining
                                  /\ slice(t, c, c + Len(k.bs)) = k.bs}
    IN  IF fits = {} THEN NoTok
        ELSE LET k == CHOOSE k \in fits : \A j \in fits : Len(j.bs) <= Len(k.bs)
             IN  [tok |-> k.tok, len |-> Len(k.bs)]

\* the offset after the maximal run of digits that starts at k
RECURSIVE digits_end(_, _)
digits_end(t, k) ==
    IF k < Len(t) /\ byte(t, k) \in Digits THEN digits_end(t, k + 1) ELSE k

\* FLOAT_PATTERN, then INT_PATTERN. No text over LexChars has a sign, an
\* exponent or the prefix 0x, so HEX_PATTERN and those parts never match.
num(t, c) ==
    LET i == digits_end(t, c)
        j == IF i < Len(t) /\ byte(t, i) = "." THEN digits_end(t, i + 1) ELSE i
    IN  IF j > i + 1 THEN [tok |-> "FLit", len |-> j - c]
        ELSE IF i > c THEN [tok |-> "ILit", len |-> i - c]
        ELSE NoTok

\* take_while(is_id_body).last(): the offset of the last char of the run
\* that starts at k, or `last` when the run is empty
RECURSIVE id_last(_, _, _)
id_last(t, k, last) ==
    IF k < Len(t) /\ is_id_body(char_at(t, k))
    THEN id_last(t, k + len_utf8(char_at(t, k)), k)
    ELSE last

\* ident, called with cur = c just after the identifier's first char:
\* the end is one byte after the START of the last body char, and slicing
\* the text there panics unless that is a char boundary.
ident(t, c, id_start) ==
    LET last == id_last(t, c, -1)
        ix == IF last >= 0 THEN last + 1 ELSE c
    IN  IF is_char_boundary(t, ix)
        THEN [panics |-> FALSE, s |-> slice(t, id_start, ix), ix |-> ix]
        ELSE [panics |-> TRUE, s |-> <<>>, ix |-> ix]

\* the loop of literal: the offset of the first delimiter not skipped by
\* is_escape, or -1
RECURSIVE find_bound_no_escape(_, _, _, _)
find_bound_no_escape(t, k, delim, is_escape) ==
    IF k >= Len(t) THEN -1
    ELSE IF char_at(t, k) = delim THEN k
    ELSE find_bound_no_escape(t, k + len_utf8(char_at(t, k)), delim, FALSE)

RECURSIVE find_bound(_, _, _, _)
find_bound(t, k, delim, is_escape) ==
    IF k >= Len(t) THEN -1
    ELSE LET c == char_at(t, k)
             n == k + len_utf8(c)
         IN  IF is_escape THEN find_bound(t, n, delim, FALSE)
             ELSE IF c = delim THEN k
             ELSE find_bound(t, n, delim, c = "\\")

literal(t, c, delim, error_msg) ==
    LET bound == find_bound(t, c, delim, FALSE)
    IN  IF bound >= 0
        THEN [ok |-> TRUE, s |-> slice(t, c, bound), new_start |-> bound + 1]
        ELSE [ok |-> FALSE, location |-> index_to_loc(t, c), desc |-> error_msg]

regex_lit(t, c) == literal(t, c, "/", "incomplete regex literal")
string_lit(t, c) == literal(t, c, "\"", "incomplete string literal")

\* consume_comment: from a '#' to the next newline, or to the end
RECURSIVE find_newline(_, _)
find_newline(t, k) ==
    IF k >= Len(t) THEN Len(t)
    ELSE IF byte(t, k) = "\n" THEN k
    ELSE find_newline(t, k + 1)

consume_comment(t, c) ==
    IF c < Len(t) /\ char_at(t, c) = "#" THEN find_newline(t, c + 1) ELSE c

\* consume_ws: res is the offset of the last char visited
RECURSIVE ws_loop(_, _, _)
ws_loop(t, k, res) ==
    IF k >= Len(t) THEN res
    ELSE LET c == char_at(t, k)
         IN  IF c = "\n" \/ ~is_whitespace(c) THEN k
             ELSE ws_loop(t, k + len_utf8(c), k)

consume_ws(t, c) == ws_loop(t, c, c)

RECURSIVE advance(_, _)
advance(t, c) ==
    LET n == consume_comment(t, consume_ws(t, c))
    IN  IF n = c THEN c ELSE advance(t, n)

potential_re_after_rparen(prev) ==
    prev \notin {"Ident", "StrLit", "PatLit", "ILit", "FLit"}

potential_re(prev) ==
    prev \notin {"Ident", "StrLit", "PatLit", "ILit", "FLit", "RParen"}

spanned(t, l, r, tok) == [l |-> index_to_loc(t, l), tok |-> tok, r |-> index_to_loc(t, r)]

\* a token returned by next, and the new cur
Token(t, ix, new_cur, kind, s) ==
    [kind |-> "Ok", at |-> ix, cur |-> new_cur,
     span |-> spanned(t, ix, new_cur, [kind |-> kind, s |-> s])]

\* what one call of next returns and where it leaves cur
next_result(t, c0, prev) ==
    LET ix == advance(t, c0)
    IN  IF ix >= Len(t) THEN [kind |-> "None", at |-> ix, cur |-> ix]
        ELSE LET c == char_at(t, ix)
                 str == string_lit(t, ix + 1)
                 re == regex_lit(t, ix + 1)
                 kw == keyword(t, ix)
                 nm == num(t, ix)
                 id == ident(t, ix + len_utf8(c), ix)
             IN  IF c = "\""
                 THEN IF str.ok THEN Token(t, ix, str.new_start, "StrLit", str.s)
                      ELSE [kind |-> "Err", at |-> ix, cur |-> ix + 1,
                            location |-> str.location, desc |-> str.desc]
                 ELSE IF c = "/" /\ potential_re(prev)
                 THEN IF re.ok THEN Token(t, ix, re.new_start, "PatLit", re.s)
                      ELSE [kind |-> "Err", at |-> ix, cur |-> ix + 1,
                            location |-> re.location, desc |-> re.desc]
                 ELSE IF kw # NoTok THEN Token(t, ix, ix + kw.len, kw.tok, <<>>)
                 ELSE IF nm # NoTok
                 THEN Token(t, ix, ix + nm.len, nm.tok, slice(t, ix, ix + nm.len))
                 ELSE IF is_id_start(c)
                 THEN IF id.panics THEN [kind |-> "panic", at |-> ix, cur |-> ix + len_utf8(c)]
                      ELSE IF id.ix < Len(t) /\ byte(t, id.ix) = "("
                      THEN Token(t, ix, id.ix + 1, "CallStart", id.s)
                      ELSE Token(t, ix, id.ix, "Ident", id.s)
                 ELSE [kind |-> "None", at |-> ix, cur |-> ix]

\* Iterator::next. A panic ends the use of the tokenizer.
next ==
    /\ lres.kind \notin {"idle", "panic"}
    /\ LET r == next_result(text, tcur, prev_tok)
       IN  /\ tcur' = r.cur
           /\ lres' = [f \in DOMAIN r \ {"cur"} |-> r[f]]
           /\ IF r.kind = "Ok"
              THEN /\ prev_tok' = r.span.tok.kind
                   /\ toks' = Append(toks, r.span)
              ELSE UNCHANGED <<prev_tok, toks>>
    /\ UNCHANGED <<text, qvars, gvars, rvars, wvars, pvars>>

\* Tokenizer::new on a text over LexChars
LexInit ==
    /\ text \in {as_bytes(cs) : cs \in Strings(LexChars, MaxLen)}
    /\ tcur = 0 /\ prev_tok = "None" /\ toks = <<>> /\ lres = [kind |-> "new"]
    /\ lit = <<>> /\ parsed = "unparsed"
    /\ WIdle /\ PIdle /\ GIdle /\ RIdle

LexNext ==
    \/ next

LexSpec == LexInit /\ [][LexNext]_vars

----------------------------------------------------------------------------
(* lexer.rs: parse_string_literal *)

LitChars == {"\\", "\"", "n", "t", "r", "a", "b", "f", "v", "q", "U+E9", "U+91CD"}

\* the bytes pushed for the char c that follows a backslash
escaped(c) ==
    CASE c = "a" -> <<"07">>
      [] c = "b" -> <<"08">>
      [] c = "f" -> <<"0C">>
      [] c = "v" -> <<"0B">>
      [] c = "\\" -> <<"\\">>
      [] c = "n" -> <<"\n">>
      [] c = "r" -> <<"\r">>
      [] c = "t" -> <<"\t">>
      [] c = "\"" -> <<"\"">>
      [] OTHER -> <<"\\">> \o encode_utf8(c)

RECURSIVE parse_loop(_, _, _)
parse_loop(cs, is_escape, buf) ==
    IF cs = <<>> THEN buf
    ELSE LET c == Head(cs)
         IN  IF is_escape THEN parse_loop(Tail(cs), FALSE, buf \o escaped(c))
             ELSE IF c = "\\" THEN parse_loop(Tail(cs), TRUE, buf)
             ELSE parse_loop(Tail(cs), FALSE, buf \o encode_utf8(c))

parse_string_literal_raw(body) == as_bytes(body)

parse_string_literal(body) == parse_loop(body, FALSE, <<>>)

\* the bodies string_lit can return: the first quote that closes the literal
\* comes right after the body
StrLitBodies ==
    {cs \in Strings(LitChars, MaxLen) :
        find_bound(as_bytes(cs) \o <<"\"">>, 0, "\"", FALSE) = Len(as_bytes(cs))}

parse ==
    /\ lit \in StrLitBodies
    /\ parsed = "unparsed"
    /\ lres.kind = "idle"
    /\ parsed' = parse_string_literal(lit)
    /\ UNCHANGED <<lit, lvars, gvars, rvars, wvars, pvars>>

LitInit ==
    /\ lit \in StrLitBodies /\ parsed = "unparsed"
    /\ text = <<>> /\ tcur = 0 /\ prev_tok = "None" /\ toks = <<>> /\ lres = [kind |-> "idle"]
    /\ WIdle /\ PIdle /\ GIdle /\ RIdle

LitNext ==
    \/ parse

LitSpec == LitInit /\ [][LitNext]_vars

----------------------------------------------------------------------------
(* llvm/mod.rs: the code a View emits                                       *)
(* A register is <<name, ty>>. An LLVM value is [k, id]: a parameter of the *)
(* function (id is its index), the result of an emitted instruction (id is  *)
(* its sequence number in the function) or a constant. The blocks of a      *)
(* function are numbered: 0 is "entry" and i + 1 is bbs[i]. An emitted      *)
(* instruction is [op, id, fn, args, to]: args are the values it uses, to   *)
(* the blocks it names (branch targets, or the incoming blocks of a phi).   *)
(* An IR instruction is [hl, op, ty, dst, src, args, output]; hl tells a    *)
(* compile::HighLevel instruction from a bytecode one.                      *)
(* The operators below take the view v, with the generator's printf table,  *)
(* and give the view after the call: v.val is the value the call returned,  *)
(* v.vals the values collected for a call, v.err the error it returned.     *)

MapTys == {"MapIntInt", "MapIntFloat", "MapIntStr", "MapStrInt", "MapStrFloat", "MapStrStr"}

\* LLVMGetParam, the result of an instruction, LLVMConstInt
Param(i) == [k |-> "param", id |-> i]
Inst(i) == [k |-> "inst", id |-> i]
ConstInt(i) == [k |-> "const", id |-> i]

bbs(i) == i + 1

\* LLVMBuild*: a builder appends one instruction to the end of block b
Build(v, b, opcode, fn, args, to) ==
    [v EXCEPT !.code[b] = Append(@, [op |-> opcode, id |-> v.n, fn |-> fn, args |-> args, to |-> to]),
              !.n = @ + 1, !.val = Inst(v.n)]

\* the same with the function's builder, which stands at v.pos
Emit(v, opcode, fn, args) == Build(v, v.pos, opcode, fn, args, <<>>)

is_global(v, reg) == reg \in DOMAIN v.globals

\* get_local_inner and get_local. Reading a global that is not a string
\* emits a load where the builder stands.
get_local(v, local) ==
    IF local[2] = "Null" THEN [v EXCEPT !.val = ConstInt(0)]
    ELSE IF local \in DOMAIN v.locals THEN [v EXCEPT !.val = v.locals[local]]
    ELSE IF is_global(v, local)
    THEN IF local[2] = "Str" THEN [v EXCEPT !.val = Param(v.globals[local])]
         ELSE Emit(v, "load", "", <<Param(v.globals[local])>>)
    ELSE [v EXCEPT !.err = "unbound variable (must call bind_val on it before)"]

has_var(v, var) == var \in DOMAIN v.locals \/ is_global(v, var)

drop_val(v, val, ty) ==
    IF ty \in MapTys
    THEN Emit(v, "call",
              CASE ty = "MapIntInt" -> "drop_intint" [] ty = "MapIntFloat" -> "drop_intfloat"
                [] ty = "MapIntStr" -> "drop_intstr" [] ty = "MapStrInt" -> "drop_strint"
                [] ty = "MapStrFloat" -> "drop_strfloat" [] ty = "MapStrStr" -> "drop_strstr",
              <<val>>)
    ELSE IF ty = "Str" THEN Emit(v, "call", "drop_str", <<val>>)
    ELSE v

\* an alloca of block b and the store that zeroes it; v.val is the slot
zeroed_slot(v, b, ty) ==
    LET zero(w) == [Build(w, b, "store", "", <<ConstInt(0), w.val>>, <<>>) EXCEPT !.val = w.val]
    IN  zero(Build(v, b, "alloca", ty, <<>>, <<>>))

\* A faulty alloca: the slot is built where the function's builder stands.
alloca_in_place(v, ty) == zeroed_slot(v, v.pos, ty)

\* View::alloca: the slot is built by the entry builder
alloca(v, ty) == zeroed_slot(v, 0, ty)

\* the free function alloc_local, for a builder that stands in block b
alloc_local(v, b, ty) ==
    IF ty \in {"Null", "Int"} THEN [v EXCEPT !.val = ConstInt(0)]
    ELSE IF ty = "Str" THEN zeroed_slot(v, b, ty)
    ELSE IF ty \in MapTys THEN Build(v, b, "call", "alloc_intint", <<>>, <<>>)
    ELSE [v EXCEPT !.err = "we should not be default-allocating any iterators"]

bind_val(v, val, to) ==
    LET param == Param(v.globals[val])
        drop_prev(w) == drop_val(w, w.val, val[2])
        into(w, loc) == [Emit(drop_val(w, loc, "Str"), "store", "", <<to, loc>>)
                            EXCEPT !.locals = (val :> loc) @@ @, !.inserted = Append(@, val)]
        into_slot(w) == into(w, w.val)
    IN  IF val[2] = "Null" THEN v
        ELSE IF is_global(v, val)
        THEN IF val[2] \in MapTys
             THEN Emit(Emit(drop_prev(Emit(v, "load", "", <<param>>)), "call", "ref_map", <<to>>),
                       "store", "", <<to, param>>)
             ELSE IF val[2] = "Str"
             THEN Emit(Emit(drop_val(v, param, "Str"), "store", "", <<to, param>>),
                       "call", "ref_str", <<param>>)
             ELSE Emit(v, "store", "", <<to, param>>)
        ELSE IF val[2] \in MapTys
        THEN [Emit(v, "call", "ref_map", <<to>>)
                  EXCEPT !.locals = (val :> to) @@ @, !.inserted = Append(@, val)]
        ELSE IF val[2] = "Str" THEN into_slot(alloca(v, "Str"))
        ELSE [v EXCEPT !.locals = (val :> to) @@ @, !.inserted = Append(@, val)]

\* format!("{:x}", ix)
RECURSIVE LowerHex(_)
LowerHex(ix) ==
    LET digit(d) == <<"0", "1", "2", "3", "4", "5", "6", "7",
                      "8", "9", "a", "b", "c", "d", "e", "f">>[d + 1]
    IN  IF ix < 16 THEN digit(ix)
        ELSE LowerHex(ix \div 16) \o digit(ix % 16)

\* v.module lists the names of the wrappers added to the module; a wrapper
\* function is known by its position in that list, left in v.val.
wrapped_printf_any_kind(v, key) ==
    IF \E k \in DOMAIN v.printfs : k.tys = key.tys
    THEN [v EXCEPT !.val = v.printfs[CHOOSE k \in DOMAIN v.printfs : k.tys = key.tys]]
    ELSE [v EXCEPT !.module = Append(@, "_pf" \o LowerHex(Cardinality(DOMAIN v.printfs))),
                   !.printfs = (key :> Len(v.module) + 1) @@ @,
                   !.val = Len(v.module) + 1]

wrapped_printf(v, key) ==
    IF key \in DOMAIN v.printfs THEN [v EXCEPT !.val = v.printfs[key]]
    ELSE LET ix == Cardinality(DOMAIN v.printfs)
             name == "_pf" \o LowerHex(ix)
             f == Len(v.module) + 1
         IN  [v EXCEPT !.module = Append(@, name), !.printfs = (key :> f) @@ @, !.val = f]

\* get_local of each register of rs in turn, the values pushed to v.vals
RECURSIVE get_locals(_, _)
get_locals(v, rs) ==
    LET collected(w) == IF w.err # "" THEN w ELSE [w EXCEPT !.vals = Append(@, w.val)]
    IN  IF rs = <<>> \/ v.err # "" THEN v
        ELSE get_locals(collected(get_local(v, Head(rs))), Tail(rs))

\* the value of the last parameter
runtime_val(v) == Param(v.num_args - 1)

\* the suffix of the intrinsics of a map type
kv(ty) ==
    CASE ty = "MapIntInt" -> "intint" [] ty = "MapIntFloat" -> "intfloat"
      [] ty = "MapIntStr" -> "intstr" [] ty = "MapStrInt" -> "strint"
      [] ty = "MapStrFloat" -> "strfloat" [] ty = "MapStrStr" -> "strstr"

\* Ty::key_iter and Ty::iter: the iterator over the keys of a map, and the
\* type of the values an iterator yields
key_iter(ty) == IF ty \in {"MapIntInt", "MapIntFloat", "MapIntStr"} THEN "IterInt" ELSE "IterStr"
iter(ty) == IF ty = "IterInt" THEN "Int" ELSE "Str"

\* the cmp of two integers: the i1 of the comparison is zero-extended
cmp(v, pred, l, r) ==
    LET zext(w) == Emit(w, "zext", "", <<w.val>>)
    IN  zext(Emit(v, "icmp", pred, <<l, r>>))

iter_begin(v, dst, arr) ==
    LET bound(w, iter_ptr, cur_index) ==
            [w EXCEPT !.iters = (dst :> [iter_ptr |-> iter_ptr, cur_index |-> cur_index,
                                         len |-> w.val]) @@ @]
        length(w, arrv, iter_ptr) ==
            bound(Emit(w, "call", "len_" \o kv(arr[2]), <<arrv>>), iter_ptr, w.val)
        cursor(w, arrv) == length(alloca(w, "Int"), arrv, w.val)
        begin(w) ==
            IF w.err # "" THEN w
            ELSE IF arr[2] \notin MapTys
            THEN [w EXCEPT !.err = "iterating over non-map type"]
            ELSE cursor(Emit(w, "call", "iter_" \o kv(arr[2]), <<w.val>>), w.val)
    IN  begin(get_local(v, arr))

\* get_iter fails on an iterator that iter_begin has not bound
iter_hasnext(v, it, dst) ==
    LET istate == v.iters[it]
        compared(w) == bind_val(w, dst, w.val)
        loaded(w) == compared(cmp(w, "ult", w.val, istate.len))
    IN  IF it \notin DOMAIN v.iters THEN [v EXCEPT !.err = "unbound iterator"]
        ELSE loaded(Emit(v, "load", "", <<istate.cur_index>>))

iter_getnext(v, it, dst) ==
    LET istate == v.iters[it]
        bound(w, res, res_loc) ==
            bind_val(IF dst[2] = "Str" THEN Emit(w, "call", "ref_str", <<res_loc>>) ELSE w,
                     dst, res)
        stored(w, res, res_loc) ==
            bound(Emit(w, "store", "", <<w.val, istate.cur_index>>), res, res_loc)
        added(w, cur, res_loc) ==
            stored(Emit(w, "add", "", <<cur, ConstInt(1)>>), w.val, res_loc)
        indexed(w, cur) == added(Emit(w, "load", "", <<w.val>>), cur, w.val)
        loaded(w) == indexed(Emit(w, "gep", "", <<istate.iter_ptr, w.val>>), w.val)
    IN  IF it \notin DOMAIN v.iters THEN [v EXCEPT !.err = "unbound iterator"]
        ELSE loaded(Emit(v, "load", "", <<istate.cur_index>>))

\* gen_ll_inst, for the opcodes of the IR given to the generator here
gen_ll_inst(v, inst) ==
    LET tys == [i \in 1..Len(inst.args) |-> inst.args[i][2]]
        bind_reg(w, reg) == bind_val(w, reg, w.val)
        mov_str(w, sv) ==
            bind_reg(Emit(Emit(w, "call", "ref_str", <<sv>>), "load", "", <<sv>>),
                     <<inst.dst, "Str">>)
        mov(w) == IF w.err # "" THEN w
                  ELSE IF inst.ty = "Str" THEN mov_str(w, w.val)
                  ELSE bind_val(w, <<inst.dst, inst.ty>>, w.val)
        \* the call of the wrapper f with the values collected in w.vals
        wrapper(w, f, more) ==
            IF w.err # "" THEN w
            ELSE Emit(w, "call", w.module[f], <<runtime_val(w)>> \o w.vals \o more)
        sprintf(w) ==
            IF w.err # "" THEN w ELSE bind_reg(w, <<inst.dst, "Str">>)
        collect(w, regs, more) ==
            wrapper(get_locals([w EXCEPT !.vals = <<>>], regs), w.val, more)
    IN  IF inst.op = "Mov" THEN mov(get_local(v, <<inst.src, inst.ty>>))
        ELSE IF inst.op = "Sprintf"
        THEN sprintf(collect(wrapped_printf(v, [tys |-> tys, kind |-> "Sprintf"]),
                             <<<<inst.src, "Str">>>> \o inst.args, <<>>))
        ELSE IF inst.op = "Printf"
        THEN IF inst.output # ""
             THEN collect(wrapped_printf(v, [tys |-> tys, kind |-> "File"]),
                          <<<<inst.src, "Str">>>> \o inst.args \o <<<<inst.output, "Str">>>>,
                          <<ConstInt(0)>>)
             ELSE collect(wrapped_printf(v, [tys |-> tys, kind |-> "Stdout"]),
                          <<<<inst.src, "Str">>>> \o inst.args, <<>>)
        ELSE IF inst.op = "IterBegin"
        THEN IF inst.ty \notin MapTys THEN [v EXCEPT !.err = "not a map type"]
             ELSE iter_begin(v, <<inst.dst, key_iter(inst.ty)>>, <<inst.src, inst.ty>>)
        ELSE IF inst.op = "IterHasNext"
        THEN iter_hasnext(v, <<inst.src, inst.ty>>, <<inst.dst, "Int">>)
        ELSE IF inst.op = "IterGetNext"
        THEN IF inst.ty \notin {"IterInt", "IterStr"} THEN [v EXCEPT !.err = "not an iterator type"]
             ELSE iter_getnext(v, <<inst.src, inst.ty>>, <<inst.dst, iter(inst.ty)>>)
        ELSE IF inst.op \in {"Push", "Pop"}
        THEN [v EXCEPT !.err = "unexpected explicit push/pop in llvm"]
        ELSE IF inst.op = "AllocMap"
        THEN [v EXCEPT !.err = "unexpected AllocMap (allocs are handled differently in LLVM)"]
        ELSE IF inst.op \in {"Ret", "Halt", "Jmp", "JmpIf", "Call"}
        THEN [v EXCEPT !.err = "unexpected bytecode-level control flow"]
        ELSE v

\* get_param: the value of an argument of a call. A register that is not
\* bound yet is bound on the spot to a default value, and that value is
\* returned.
get_param(v, local) ==
    LET bound(w) == IF w.err # "" THEN w ELSE [bind_val(w, local, w.val) EXCEPT !.val = w.val]
    IN  IF local[2] = "Null" \/ local \in DOMAIN v.locals \/ is_global(v, local)
        THEN get_local(v, local)
        ELSE IF local[2] \in {"Int", "Str"} THEN bound([v EXCEPT !.val = ConstInt(0)])
        ELSE bound(alloc_local(v, v.pos, local[2]))

\* get_param of each register of rs in turn, the values pushed to v.vals
RECURSIVE get_params(_, _)
get_params(v, rs) ==
    LET collected(w) == IF w.err # "" THEN w ELSE [w EXCEPT !.vals = Append(@, w.val)]
    IN  IF rs = <<>> \/ v.err # "" THEN v
        ELSE get_params(collected(get_param(v, Head(rs))), Tail(rs))

\* format!("{}", ix)
RECURSIVE Decimal(_)
Decimal(ix) ==
    LET digit(d) == <<"0", "1", "2", "3", "4", "5", "6", "7", "8", "9">>[d + 1]
    IN  IF ix < 10 THEN digit(ix)
        ELSE Decimal(ix \div 10) \o digit(ix % 10)

\* the name build_decls gives the function func_id
udf(func_id) == "_frawk_udf_" \o Decimal(func_id)

\* A faulty gen_hl_inst: the register of a phi is not marked skip_drop.
gen_hl_inst_drop_phi(v, inst) ==
    LET insert(w) == [w EXCEPT !.locals = (<<inst.dst, inst.ty>> :> w.val) @@ @,
                               !.inserted = Append(@, <<inst.dst, inst.ty>>)]
    IN  IF inst.op = "Phi" THEN insert(Emit(v, "phi", "", <<>>))
        ELSE v

\* gen_hl_inst for Call, Phi, Ret and DropIter. The incoming values of a phi are wired in
\* by gen_function, the return is built by gen_function.
gen_hl_inst(v, inst) ==
    LET insert(w) == [w EXCEPT !.locals = (<<inst.dst, inst.ty>> :> w.val) @@ @,
                               !.inserted = Append(@, <<inst.dst, inst.ty>>),
                               !.skip_drop = @ \cup {<<inst.dst, inst.ty>>}]
        it == <<inst.src, inst.ty>>
        drop_iter(w, istate) ==
            Emit(w, "call", IF inst.ty = "IterInt" THEN "drop_iter_int" ELSE "drop_iter_str",
                 <<istate.iter_ptr, istate.len>>)
        \* the globals of the callee, passed on from the caller's parameters
        target == v.decls[inst.func_id + 1]
        passed == [j \in 1..Len(target) |-> Param(v.globals[target[j]])]
        returned(w) == bind_val(w, <<inst.dst, inst.ty>>, w.val)
        called(w) ==
            IF w.err # "" THEN w
            ELSE IF \E j \in 1..Len(target) : ~is_global(w, target[j])
            THEN [w EXCEPT !.err = "panic: callee must have all globals"]
            ELSE returned(Emit(w, "call", udf(inst.func_id),
                               w.vals \o passed \o <<runtime_val(w)>>))
    IN  IF inst.op = "Phi" THEN insert(Emit(v, "phi", "", <<>>))
        ELSE IF inst.op = "Call" THEN called(get_params([v EXCEPT !.vals = <<>>], inst.args))
        ELSE IF inst.op = "DropIter"
        THEN IF inst.ty \notin {"IterInt", "IterStr"}
             THEN [v EXCEPT !.err = "can only drop iterators"]
             ELSE IF it \notin DOMAIN v.iters THEN [v EXCEPT !.err = "unbound iterator"]
             ELSE drop_iter(v, v.iters[it])
        ELSE v

\* A faulty branch: the conditional case is ignored.
branch_unconditional(v, tcase, fcase) == Build(v, v.pos, "br", "", <<>>, <<fcase>>)

branch(v, tcase, fcase) ==
    LET cond(w) == Build(w, w.pos, "condbr", "", <<w.val>>, <<tcase[2], fcase>>)
        test(w) == IF w.err # "" THEN w
                   ELSE cond(Emit(w, "icmp", "ne", <<w.val, ConstInt(0)>>))
    IN  IF tcase # <<>> THEN test(get_local(v, <<tcase[1], "Int">>))
        ELSE Build(v, v.pos, "br", "", <<>>, <<fcase>>)

\* The drops are emitted in the order the code iterates the table of
\* locals, a hash map: the order changes nothing but the order of the drop
\* calls of one return.
ret_val(v, to_return, ty) ==
    LET RECURSIVE drops(_, _)
        drops(w, regs) ==
            LET reg == CHOOSE r \in regs : TRUE
            IN  IF regs = {} THEN w
                ELSE IF reg \in w.skip_drop \/ w.locals[reg] = to_return
                THEN drops(w, regs \ {reg})
                ELSE drops(drop_val(w, w.locals[reg], reg[2]), regs \ {reg})
        ret_loaded(w) == Emit(w, "ret", "", <<w.val>>)
        build_ret(w) == IF ty = "Str" THEN ret_loaded(Emit(w, "load", "", <<to_return>>))
                        ELSE Emit(w, "ret", "", <<to_return>>)
    IN  build_ret(drops(v, DOMAIN v.locals))

\* the nodes of a graph reached from the nodes S without entering a node of
\* avoid; succ maps a node to its successors
RECURSIVE reach(_, _, _)
reach(succ, S, avoid) ==
    LET grow(T) == IF T = S THEN S ELSE reach(succ, T, avoid)
    IN  grow((S \cup UNION {succ[b] : b \in S}) \ avoid)

\* every path from node 0 to b passes through d
dominates(succ, d, b) == d = b \/ b \notin reach(succ, {0} \ {d}, {d})

\* petgraph::visit::Dfs: the nodes in the order next yields them.
\* neighbors yields the targets of the edges that leave a node, the edge
\* added last first.
RECURSIVE Dfs(_, _, _)
Dfs(graph, stack, discovered) ==
    LET rev(es) == [k \in 1..Len(es) |-> es[Len(es) + 1 - k].to]
        neighbors(a) == rev(SelectSeq(graph.edges, LAMBDA e : e.from = a))
        visit(node, rest, seen) ==
            <<node>> \o Dfs(graph, rest \o SelectSeq(neighbors(node), LAMBDA s : s \notin seen),
                            seen)
        pop(node, rest) == IF node \in discovered THEN Dfs(graph, rest, discovered)
                           ELSE visit(node, rest, discovered \cup {node})
    IN  IF stack = <<>> THEN <<>>
        ELSE pop(stack[Len(stack)], SubSeq(stack, 1, Len(stack) - 1))

\* Generator::gen_function on the generator g: the generator after it.
\* g.err is the error it returned, if any.
gen_function(g, func_id) ==
    LET frame == g.types.frames[func_id + 1]
        graph == frame.cfg
        node_weight(bb, inst) == graph.nodes[bb + 1][inst]
        view == [globals |-> [r \in {frame.globals[j] : j \in 1..Len(frame.globals)} |->
                                 Len(frame.args) - 1
                                 + CHOOSE j \in 1..Len(frame.globals) : frame.globals[j] = r],
                 num_args |-> Len(frame.args) + Len(frame.globals) + 1,
                 decls |-> [k \in 1..Len(g.types.frames) |-> g.types.frames[k].globals],
                 locals |-> <<>>, skip_drop |-> {}, iters |-> <<>>, inserted |-> <<>>,
                 code |-> [b \in 0..Len(graph.nodes) |-> <<>>], n |-> 0, pos |-> bbs(0),
                 exits |-> <<>>, phis |-> <<>>, val |-> ConstInt(0), vals |-> <<>>,
                 printfs |-> g.printfs, module |-> g.module, err |-> ""]
        \* implicitly-declared locals
        RECURSIVE declare(_, _)
        declare(v, regs) ==
            LET insert(w) == [w EXCEPT !.locals = (Head(regs) :> w.val) @@ @,
                                       !.inserted = Append(@, Head(regs))]
            IN  IF regs = <<>> \/ v.err # "" THEN v
                ELSE declare(insert(alloc_local(v, bbs(0), Head(regs)[2])), Tail(regs))
        \* handle arguments
        arguments(v) ==
            [v EXCEPT !.locals = [r \in {frame.args[i] : i \in 1..Len(frame.args)} |->
                                     Param((CHOOSE i \in 1..Len(frame.args) : frame.args[i] = r) - 1)]
                                 @@ @,
                      !.inserted = @ \o frame.args,
                      !.skip_drop = @ \cup {frame.args[i] : i \in 1..Len(frame.args)}]
        \* the instructions of node i, from the j-th on
        RECURSIVE block(_, _, _)
        block(v, i, j) ==
            LET record(w, inst) ==
                    IF w.err # "" \/ ~inst.hl THEN w
                    ELSE IF inst.op = "Ret" THEN [w EXCEPT !.exits = Append(@, <<i, j>>)]
                    ELSE IF inst.op = "Phi" THEN [w EXCEPT !.phis = Append(@, <<i, j>>)]
                    ELSE w
                lower(w, inst) == IF inst.hl THEN gen_hl_inst(w, inst) ELSE gen_ll_inst(w, inst)
                one(w, inst) == record(lower(w, inst), inst)
            IN  IF j > Len(graph.nodes[i + 1]) \/ v.err # "" THEN v
                ELSE block(one(v, node_weight(i, j)), i, j + 1)
        \* the walk over the edges of node i, and the branch
        edges(v, i) ==
            LET pick(t, e) ==
                    IF Len(t) > 1 \/ Len(e) > 1 THEN [v EXCEPT !.err = "panic: assertion failed"]
                    ELSE IF e = <<>> THEN v
                    ELSE branch(v, IF t = <<>> THEN <<>> ELSE <<t[1].cond, bbs(t[1].to)>>,
                                bbs(e[1].to))
            IN  pick(SelectSeq(graph.edges, LAMBDA e : e.from = i /\ e.cond # ""),
                     SelectSeq(graph.edges, LAMBDA e : e.from = i /\ e.cond = ""))
        RECURSIVE walk(_, _)
        walk(v, order) ==
            LET leave(w, i) == IF w.err # "" THEN w ELSE edges(w, i)
            IN  IF order = <<>> \/ v.err # "" THEN v
                ELSE walk(leave(block([v EXCEPT !.pos = bbs(Head(order))], Head(order), 1),
                                Head(order)), Tail(order))
        RECURSIVE returns(_, _)
        returns(v, exits) ==
            LET ret_last(w, ty) == IF w.err # "" THEN w ELSE ret_val(w, w.val, ty)
                one(w, var) == IF has_var(w, var) THEN ret_last(get_local(w, var), var[2])
                               ELSE ret_last(alloc_local(w, w.pos, var[2]), var[2])
                at(w, inst) == one(w, <<inst.src, inst.ty>>)
            IN  IF exits = <<>> \/ v.err # "" THEN v
                ELSE returns(at([v EXCEPT !.pos = bbs(Head(exits)[1])],
                                node_weight(Head(exits)[1], Head(exits)[2])), Tail(exits))
        \* LLVMAddIncoming on the phi node `phi`
        AddIncoming(v, phi, preds, blocks) ==
            [v EXCEPT !.code = [b \in DOMAIN @ |-> [k \in 1..Len(@[b]) |->
                IF @[b][k].id = phi.id /\ phi.k = "inst"
                THEN [@[b][k] EXCEPT !.args = @ \o preds, !.to = @ \o blocks]
                ELSE @[b][k]]]]
        RECURSIVE wire(_, _)
        wire(v, phis) ==
            LET add(w, phi_node, inst) ==
                    IF w.err # "" THEN w
                    ELSE AddIncoming(w, phi_node, w.vals,
                                     [k \in 1..Len(inst.args) |-> bbs(inst.args[k][1])])
                preds(w, inst) ==
                    IF w.err # "" THEN w
                    ELSE add(get_locals([w EXCEPT !.vals = <<>>],
                                        [k \in 1..Len(inst.args) |-> <<inst.args[k][2], inst.ty>>]),
                             w.val, inst)
                one(w, inst) == preds(get_local(w, <<inst.dst, inst.ty>>), inst)
            IN  IF phis = <<>> \/ v.err # "" THEN v
                ELSE wire(one(v, node_weight(Head(phis)[1], Head(phis)[2])), Tail(phis))
        enter(w) == IF w.err # "" THEN w ELSE Build(w, 0, "br", "", <<>>, <<bbs(0)>>)
        wired(w) == enter(wire(w, w.phis))
        returned(w) == wired(returns(w, w.exits))
        result(w) == [g EXCEPT !.printfs = w.printfs, !.module = w.module, !.err = w.err,
                               !.funcs[func_id + 1] =
                                   [entry |-> TRUE, code |-> w.code, locals |-> w.locals,
                                    skip_drop |-> w.skip_drop, iters |-> w.iters,
                                    inserted |-> w.inserted]]
    IN  IF ~frame.is_called THEN g
        ELSE result(returned(walk(arguments(declare(view, frame.locals)), Dfs(graph, <<0>>, {}))))

----------------------------------------------------------------------------
(* llvm/mod.rs: what LLVMVerifyModule checks of the emitted functions *)

\* The rules a function's code breaks: every block ends with its only
\* terminator; the definition of a value dominates each use of it, where a
\* phi uses an incoming value at the end of the incoming block.
problems_of(code) ==
    LET succ == [b \in DOMAIN code |->
                    IF code[b] # <<>> /\ code[b][Len(code[b])].op \in {"br", "condbr"}
                    THEN {code[b][Len(code[b])].to[k] : k \in 1..Len(code[b][Len(code[b])].to)}
                    ELSE {}]
        live == reach(succ, {0}, {})
        sites == UNION {{<<b, k>> : k \in 1..Len(code[b])} : b \in DOMAIN code}
        def_site(id) == CHOOSE s \in sites : code[s[1]][s[2]].id = id
        dominated(d, i, b, k, j) ==
            IF i.op = "phi" THEN i.to[j] \notin live \/ dominates(succ, d[1], i.to[j])
            ELSE \/ b \notin live
                 \/ d[1] = b /\ d[2] < k
                 \/ d[1] # b /\ dominates(succ, d[1], b)
        use_ok(b, k, j) ==
            \/ code[b][k].args[j].k # "inst"
            \/ dominated(def_site(code[b][k].args[j].id), code[b][k], b, k, j)
        terminated ==
            \A b \in DOMAIN code :
                /\ code[b] # <<>>
                /\ \A k \in 1..Len(code[b]) :
                       code[b][k].op \in {"br", "condbr", "ret"} <=> k = Len(code[b])
    IN  (IF terminated THEN {} ELSE {"terminator"})
        \cup (IF \A s \in sites : \A j \in 1..Len(code[s[1]][s[2]].args) : use_ok(s[1], s[2], j)
              THEN {} ELSE {"dominance"})

----------------------------------------------------------------------------
(* llvm/mod.rs: the generator and the functions it generates, as steps *)

\* Generator::init, had its loop gone on after a function failed
init_keep_going ==
    /\ gen.st = "new"
    /\ gen' = LET RECURSIVE loop(_, _, _)
                  loop(g, i, e) ==
                      LET after(h) == loop(h, i + 1, IF e # "" THEN e ELSE h.err)
                      IN  IF i >= Len(g.types.frames)
                          THEN [g EXCEPT !.err = e,
                                         !.st = IF e = "" THEN "built" ELSE "error"]
                          ELSE after(gen_function(g, i))
              IN  loop(gen, 0, "")
    /\ UNCHANGED <<run, lvars, qvars, rvars, wvars, pvars>>

\* Generator::init on the typed IR gen.types
init ==
    /\ gen.st = "new"
    /\ gen' = LET \* for i in 0..nframes { res.gen_function(i)?; }
                  RECURSIVE loop(_, _)
                  loop(g, i) == IF i >= Len(g.types.frames) \/ g.err # "" THEN g
                                ELSE loop(gen_function(g, i), i + 1)
                  res(g) == [g EXCEPT !.st = IF g.err = "" THEN "built" ELSE "error"]
              IN  res(loop(gen, 0))
    /\ UNCHANGED <<run, lvars, qvars, rvars, wvars, pvars>>

\* Generator::verify, as dump_module calls it
verify ==
    /\ gen.st = "built"
    /\ gen' = [gen EXCEPT !.st = "verified",
                          !.problems = UNION {problems_of(gen.funcs[f].code) :
                                              f \in {f \in 1..Len(gen.funcs) : gen.funcs[f].entry}}]
    /\ UNCHANGED <<run, lvars, qvars, rvars, wvars, pvars>>

MaxSteps == 40

\* the runtime's iter_<kv> and len_<kv>
IterFns == {"iter_" \o kv(ty) : ty \in MapTys}
LenFns == {"len_" \o kv(ty) : ty \in MapTys}

\* the most keys a map holds
MaxKeys == 2

\* A runtime value is <<kind, n>>: a string or map object "obj", a memory
\* cell "cell", the null string or the integer 0 "null", an integer "num"
\* of value n, or an integer "int" whose value the model leaves open (the
\* integer argument, a key read past the end of an array). The array of
\* the keys of a map is "arr", a pointer to its n-th element
\* <<"elem", array, n>>, the element <<"key", array, n>>. The caller passes
\* a fresh object for each map argument and a cell that holds a fresh
\* object for each string argument and each global.
\* the caller enters the generated function f
call(f) ==
    /\ gen.st = "verified" /\ gen.problems = {}
    /\ f \in DOMAIN gen.funcs /\ gen.funcs[f].entry
    /\ run.st = "idle"
    /\ LET frame == gen.types.frames[f]
           regs == frame.args \o frame.globals
           byptr == {i \in 1..Len(regs) : i > Len(frame.args) \/ regs[i][2] = "Str"}
           objs == {i \in 1..Len(regs) : regs[i][2] # "Int"}
       IN  run' = [st |-> "running", f |-> f, bb |-> 0, ix |-> 1, prev |-> 0, steps |-> 0,
                   params |-> [i \in 1..Len(regs) + 1 |->
                                  IF i \in byptr THEN <<"cell", 0 - i>>
                                  ELSE IF i \in objs THEN <<"obj", 0 - i>> ELSE <<"int", 0>>],
                   env |-> <<>>,
                   cells |-> [c \in {<<"cell", 0 - i>> : i \in byptr} |->
                                 IF 0 - c[2] \in objs THEN <<"obj", c[2]>> ELSE <<"int", 0>>],
                   rc |-> [o \in {<<"obj", 0 - i>> : i \in objs} |-> 1],
                   size |-> <<>>,
                   ret |-> <<"null", 0>>]
    /\ UNCHANGED <<gen, lvars, qvars, rvars, wvars, pvars>>

\* the running function executes the instruction it stands at
step ==
    /\ run.st = "running" /\ run.steps < MaxSteps
    /\ LET code == gen.funcs[run.f].code
           i == code[run.bb][run.ix]
           eval(val) == IF val.k = "param" THEN run.params[val.id + 1]
                        ELSE IF val.k = "const"
                        THEN IF val.id = 0 THEN <<"null", 0>> ELSE <<"num", val.id>>
                        ELSE run.env[val.id]
           a(j) == eval(i.args[j])
           count(r, o, d) == IF o \in DOMAIN r.rc THEN [r EXCEPT !.rc[o] = @ + d] ELSE r
           bind(r, x) == [r EXCEPT !.env = (i.id :> x) @@ @]
           goto(r, b) == [r EXCEPT !.prev = run.bb, !.bb = b, !.ix = 1, !.steps = @ + 1]
           nxt(r) == [r EXCEPT !.ix = @ + 1, !.steps = @ + 1]
           sprintf == \E key \in DOMAIN gen.printfs :
                          key.kind = "Sprintf" /\ gen.module[gen.printfs[key]] = i.fn
           known(x) == x[1] \in {"num", "null"}
           int_of(x) == IF x[1] = "num" THEN x[2] ELSE 0
           bool(b) == <<"num", IF b THEN 1 ELSE 0>>
           deref(ptr) == IF ptr[1] = "elem"
                         THEN IF ptr[3] < run.size[ptr[2]] THEN <<"key", ptr[2], ptr[3]>>
                              ELSE <<"int", 0>>
                         ELSE run.cells[ptr]
       IN  \/ /\ i.op = "alloca"
              /\ run' = nxt([bind(run, <<"cell", i.id>>)
                                EXCEPT !.cells = (<<"cell", i.id>> :> <<"null", 0>>) @@ @])
           \/ /\ i.op = "store"
              /\ run' = nxt([run EXCEPT !.cells[a(2)] = a(1)])
           \/ /\ i.op = "load"
              /\ run' = nxt(bind(run, deref(a(1))))
           \/ /\ i.op = "icmp"
              /\ run' = nxt(bind(run, IF ~(known(a(1)) /\ known(a(2))) THEN <<"int", 0>>
                                      ELSE IF i.fn = "ult" THEN bool(int_of(a(1)) < int_of(a(2)))
                                      ELSE bool(int_of(a(1)) # int_of(a(2)))))
           \/ /\ i.op = "zext"
              /\ run' = nxt(bind(run, a(1)))
           \/ /\ i.op = "add"
              /\ run' = nxt(bind(run, IF known(a(1)) /\ known(a(2))
                                      THEN <<"num", int_of(a(1)) + int_of(a(2))>>
                                      ELSE <<"int", 0>>))
           \/ /\ i.op = "gep"
              /\ run' = nxt(bind(run, <<"elem", a(1), int_of(a(2))>>))
           \/ /\ i.op = "call" /\ i.fn \in IterFns
              /\ \E n \in 0..MaxKeys :
                     /\ a(1) \in DOMAIN run.size => n = run.size[a(1)]
                     /\ run' = nxt([bind(run, <<"arr", i.id>>)
                                       EXCEPT !.size = (<<"arr", i.id>> :> n) @@ (a(1) :> n) @@ @])
           \/ /\ i.op = "phi"
              /\ run' = nxt(bind(run, a(CHOOSE j \in 1..Len(i.to) : i.to[j] = run.prev)))
           \/ /\ i.op = "call" /\ i.fn \notin IterFns
              /\ run' = nxt(IF i.fn = "ref_map" THEN count(run, a(1), 1)
                            ELSE IF i.fn \in {udf(k - 1) : k \in DOMAIN gen.funcs}
                            THEN bind(run, <<"int", 0>>)
                            ELSE IF i.fn \in LenFns
                            THEN bind(run, IF a(1) \in DOMAIN run.size
                                           THEN <<"num", run.size[a(1)]>> ELSE <<"int", 0>>)
                            ELSE IF i.fn = "ref_str" THEN count(run, run.cells[a(1)], 1)
                            ELSE IF i.fn = "drop_str" THEN count(run, run.cells[a(1)], -1)
                            ELSE IF i.fn \in {"drop_intint", "drop_intfloat", "drop_intstr",
                                              "drop_strint", "drop_strfloat", "drop_strstr"}
                            THEN count(run, a(1), -1)
                            ELSE IF i.fn = "alloc_intint" \/ sprintf
                            THEN [bind(run, <<"obj", i.id>>) EXCEPT !.rc = (<<"obj", i.id>> :> 1) @@ @]
                            ELSE run)
           \/ /\ i.op \in {"br", "condbr"}
              /\ \E j \in 1..Len(i.to) :
                     /\ i.op = "condbr" /\ known(a(1)) => j = (IF int_of(a(1)) # 0 THEN 1 ELSE 2)
                     /\ run' = goto(run, i.to[j])
           \/ /\ i.op = "ret"
              /\ run' = [run EXCEPT !.st = "returned", !.ret = a(1), !.steps = @ + 1]
    /\ UNCHANGED <<gen, lvars, qvars, rvars, wvars, pvars>>

----------------------------------------------------------------------------
(* llvm/mod.rs: the typed IR handed to the generator *)

IR(hl, opcode, ty, dst, src, args, output) ==
    [hl |-> hl, op |-> opcode, ty |-> ty, dst |-> dst, src |-> src, args |-> args,
     output |-> output]

\* Every function takes an integer, a map and a string, and shares a global
\* map and a global string.
Frame(is_called, nodes, edges) ==
    [is_called |-> is_called,
     args |-> <<<<"c", "Int">>, <<"m", "MapIntInt">>, <<"s", "Str">>>>,
     globals |-> <<<<"gm", "MapIntInt">>, <<"gs", "Str">>>>,
     locals |-> <<>>,
     cfg |-> [nodes |-> nodes, edges |-> edges]]

Edge(from, to, cond) == [from |-> from, to |-> to, cond |-> cond]

\* The SSA contract of a frame: every register an instruction, a branch or
\* a phi uses is an argument, a global, or a local whose one definition
\* dominates the use. A return may name a register that is never assigned.
SSA(frame) ==
    LET nodes == frame.cfg.nodes
        N == 0..Len(nodes) - 1
        edges == frame.cfg.edges
        succ == [n \in N |-> {edges[k].to : k \in {k \in 1..Len(edges) : edges[k].from = n}}]
        given == {frame.args[i] : i \in 1..Len(frame.args)}
                 \cup {frame.globals[i] : i \in 1..Len(frame.globals)}
        sites == UNION {{<<n, j>> : j \in 1..Len(nodes[n + 1])} : n \in N}
        at(s) == nodes[s[1] + 1][s[2]]
        defined(inst) ==
            IF inst.op \in {"Mov", "Phi", "Sprintf"} \/ (inst.op = "Call" /\ inst.hl)
            THEN {<<inst.dst, inst.ty>>}
            ELSE IF inst.op = "IterBegin" THEN {<<inst.dst, key_iter(inst.ty)>>}
            ELSE IF inst.op = "IterHasNext" THEN {<<inst.dst, "Int">>}
            ELSE IF inst.op = "IterGetNext" THEN {<<inst.dst, iter(inst.ty)>>}
            ELSE {}
        defs(reg) == {s \in sites : reg \in defined(at(s))}
        \* reg is defined before position j of node n
        avail(reg, n, j) ==
            \/ reg \in given
            \/ \E d \in defs(reg) : \/ d[1] = n /\ d[2] < j
                                    \/ d[1] # n /\ dominates(succ, d[1], n)
        uses(s) ==
            IF at(s).op \in {"Mov", "IterBegin", "IterHasNext", "IterGetNext", "DropIter"}
            THEN {<<at(s).src, at(s).ty>>}
            ELSE IF at(s).op \in {"Printf", "Sprintf"}
            THEN {<<at(s).src, "Str">>} \cup {at(s).args[i] : i \in 1..Len(at(s).args)}
                 \cup (IF at(s).output # "" THEN {<<at(s).output, "Str">>} ELSE {})
            ELSE {}
    IN  /\ \A s \in sites : \A reg \in defined(at(s)) : Cardinality(defs(reg)) <= 1
        /\ \A s \in sites : \A reg \in uses(s) : avail(reg, s[1], s[2])
        /\ \A s \in sites : at(s).hl /\ at(s).op = "Ret" =>
               defs(<<at(s).src, at(s).ty>>) = {} \/ avail(<<at(s).src, at(s).ty>>, s[1], s[2])
        /\ \A k \in 1..Len(edges) : edges[k].cond # "" =>
               avail(<<edges[k].cond, "Int">>, edges[k].from, Len(nodes[edges[k].from + 1]) + 1)
        /\ \A s \in sites : at(s).op = "Phi" =>
               /\ {at(s).args[i][1] : i \in 1..Len(at(s).args)} = {n \in N : s[1] \in succ[n]}
               /\ \A i \in 1..Len(at(s).args) :
                      avail(<<at(s).args[i][2], at(s).ty>>, at(s).args[i][1],
                            Len(nodes[at(s).args[i][1] + 1]) + 1)

\* One function of three nodes: a line, a diamond or a loop. Nodes 0 and 1
\* each hold at most one Mov of a map or a string, node 2 an optional phi
\* and the return.
MovFrames ==
    LET Movs(dst, locals) ==
            {<<>>} \cup UNION {{<<IR(FALSE, "Mov", ty, dst, src, <<>>, "")>> :
                                    src \in (IF ty = "Str" THEN {"s", "gs"} ELSE {"m", "gm"})
                                            \cup locals} :
                               ty \in {"MapIntInt", "Str"}}
        shapes == { <<Edge(0, 1, ""), Edge(1, 2, "")>>,
                    <<Edge(0, 1, "c"), Edge(0, 2, ""), Edge(1, 2, "")>>,
                    <<Edge(0, 1, ""), Edge(1, 1, "c"), Edge(1, 2, "")>> }
        tys == {"MapIntInt", "Str"}
        phis == {<<>>} \cup {<<IR(TRUE, "Phi", ty, "d2", "", <<<<0, "d0">>, <<1, "d1">>>>, "")>> :
                                 ty \in tys}
        rets == {<<IR(TRUE, "Ret", "Int", "", "r", <<>>, "")>>}
                \cup {<<IR(TRUE, "Ret", ty, "", r, <<>>, "")>> : ty \in tys, r \in {"d0", "d1", "d2"}}
        all == {Frame(TRUE, <<b0, b1, phi \o fin>>, shape) :
                    b0 \in Movs("d0", {}), b1 \in Movs("d1", {"d0"}),
                    phi \in phis, fin \in rets, shape \in shapes}
    IN  {<<f>> : f \in {f \in all : SSA(f)}}

\* One function that iterates over the keys of a map: the iteration is the
\* whole body, or the body of a loop that the integer argument controls.
IterFrames ==
    LET begin(map) == <<IR(FALSE, "IterBegin", "MapIntInt", "it", map, <<>>, "")>>
        hasnext == <<IR(FALSE, "IterHasNext", "IterInt", "h", "it", <<>>, "")>>
        getnext == <<IR(FALSE, "IterGetNext", "IterInt", "k", "it", <<>>, "")>>
        dropped == <<IR(TRUE, "DropIter", "IterInt", "", "it", <<>>, "")>>
        inner == <<Edge(2, 3, ""), Edge(3, 4, "h"), Edge(3, 5, ""), Edge(4, 3, "")>>
        shapes == { <<Edge(0, 1, ""), Edge(1, 2, "")>> \o inner \o <<Edge(5, 6, "")>>,
                    <<Edge(0, 1, ""), Edge(1, 2, "c"), Edge(1, 6, "")>> \o inner
                        \o <<Edge(5, 1, "")>> }
        all == {Frame(TRUE, <<<<>>, <<>>, begin(map), hasnext, getnext, dropped,
                              <<IR(TRUE, "Ret", "Int", "", r, <<>>, "")>>>>, shape) :
                    map \in {"m", "gm"}, r \in {"r", "k"}, shape \in shapes}
    IN  {<<f>> : f \in {f \in all : SSA(f)}}

\* One function of one node that assigns to a global: a map, a string or an
\* integer, from an argument or from the global itself.
GlobalFrames ==
    LET movs == {IR(FALSE, "Mov", "MapIntInt", "gm", src, <<>>, "") : src \in {"m", "gm"}}
                \cup {IR(FALSE, "Mov", "Str", "gs", src, <<>>, "") : src \in {"s", "gs"}}
                \cup {IR(FALSE, "Mov", "Int", "gi", src, <<>>, "") : src \in {"c", "gi"}}
        fin == IR(TRUE, "Ret", "Int", "", "r", <<>>, "")
        with_gi(frame) == [frame EXCEPT !.globals = @ \o <<<<"gi", "Int">>>>]
    IN  {<<with_gi(Frame(TRUE, <<<<mov, fin>>>>, <<>>))>> : mov \in movs}

\* Call { func_id, dst_reg, dst_ty, args }
CallInst(func_id, dst, ty, args) ==
    [hl |-> TRUE, op |-> "Call", ty |-> ty, dst |-> dst, src |-> "", args |-> args,
     output |-> "", func_id |-> func_id]

\* Two functions of one node each. The first calls the second once or
\* twice with the same arguments and returns the last result; each argument
\* is a parameter of the caller or a register that nothing has assigned.
CallFrames ==
    LET fin(r) == IR(TRUE, "Ret", "Int", "", r, <<>>, "")
        argvs == {<<a1, a2, a3>> : a1 \in {<<"c", "Int">>, <<"u0", "Int">>},
                                   a2 \in {<<"m", "MapIntInt">>, <<"u1", "MapIntInt">>},
                                   a3 \in {<<"s", "Str">>, <<"u2", "Str">>}}
        bodies == {<<CallInst(1, "x", "Int", args), fin("x")>> : args \in argvs}
                  \cup {<<CallInst(1, "x", "Int", args), CallInst(1, "y", "Int", args), fin("y")>> :
                            args \in argvs}
    IN  {<<Frame(TRUE, <<body>>, <<>>), Frame(TRUE, <<<<fin("r")>>>>, <<>>)>> : body \in bodies}

\* Two functions of one node each: one or two printf sites in the first, one
\* in the second.
PrintfFrames ==
    LET vecs == {<<>>, <<<<"c", "Int">>>>, <<<<"s", "Str">>>>}
        sites(dst) == {IR(FALSE, "Printf", "", "", "s", args, out) :
                           args \in vecs, out \in {"", "gs"}}
                      \cup {IR(FALSE, "Sprintf", "Str", dst, "s", args, "") : args \in vecs}
        fin == IR(TRUE, "Ret", "Int", "", "r", <<>>, "")
        first == {<<a, fin>> : a \in sites("t0")}
                 \cup {<<a, b, fin>> : a \in sites("t0"), b \in sites("t1")}
    IN  {<<Frame(TRUE, <<b0>>, <<>>), Frame(TRUE, <<<<a, fin>>>>, <<>>)>> :
             b0 \in first, a \in sites("t0")}

\* Two functions, called or not. The first has two nodes, linked or not,
\* each with at most one opcode the generator does not lower; the second
\* has one node.
Unsupported == {"Push", "Pop", "AllocMap", "Jmp", "JmpIf", "Ret", "Halt", "Call"}

OpcodeFrames ==
    LET ops(S) == {<<>>} \cup {<<IR(FALSE, o, "", "", "", <<>>, "")>> : o \in S}
        fin == <<IR(TRUE, "Ret", "Int", "", "r", <<>>, "")>>
    IN  {<<Frame(c0, IF linked THEN <<b0, b1 \o fin>> ELSE <<b0 \o fin, b1>>,
                 IF linked THEN <<Edge(0, 1, "")>> ELSE <<>>),
           Frame(c1, <<b2 \o fin>>, <<>>)>> :
             c0 \in BOOLEAN, c1 \in BOOLEAN, linked \in BOOLEAN,
             b0 \in ops(Unsupported), b1 \in ops(Unsupported), b2 \in ops({"Pop", "Call"})}

\* Generator::init is about to run on the typed IR of one program.
GenInit ==
    /\ \E frames \in MovFrames \cup PrintfFrames \cup OpcodeFrames \cup IterFrames
                      \cup GlobalFrames \cup CallFrames :
           gen = [st |-> "new", types |-> [frames |-> frames],
                  funcs |-> [i \in 1..Len(frames) |->
                                [entry |-> FALSE, code |-> <<>>, locals |-> <<>>,
                                 skip_drop |-> {}, iters |-> <<>>, inserted |-> <<>>]],
                  printfs |-> <<>>, module |-> <<>>, err |-> "", problems |-> {}]
    /\ run = [st |-> "idle"]
    /\ text = <<>> /\ tcur = 0 /\ prev_tok = "None" /\ toks = <<>> /\ lres = [kind |-> "idle"]
    /\ lit = <<>> /\ parsed = "unparsed"
    /\ WIdle /\ PIdle /\ RIdle

GenNext ==
    \/ init
    \/ verify
    \/ \E f \in 1..2 : call(f)
    \/ step

GenSpec == GenInit /\ [][GenNext]_vars

----------------------------------------------------------------------------
(* Vocabulary of the writer's properties *)

\* The bytes of client c's write calls i..j, in call order.
Bytes(c, i, j) == [k \in 1..(j - i + 1) |-> <<c, i + k - 1>>]

OfClient(s, c) == SelectSeq(s, LAMBDA b : b[1] = c)

RECURSIVE Sum(_, _)
Sum(f, S) == IF S = {} THEN 0 ELSE LET x == CHOOSE y \in S : TRUE IN f[x] + Sum(f, S \ {x})

\* The client's last call was a flush and it returned Ok.
FlushOk(c) == pc[c] = "idle" /\ op[c] = "flush" /\ ret[c] = Ok

\* The handle was flushed, or dropped (which flushes).
Flushed(c) == FlushOk(c) \/ pc[c] = "done"

\* No other client has made any call: c's handle is the only one in use.
Alone(c) == \A d \in Clients \ {c} : op[d] = "none"

\* Write requests that are in the channel or held by the owner thread.
PendingWrites == {r \in Range(chan) \cup Range(batch) : r.type = "Write"}

----------------------------------------------------------------------------
(* C1..C7: the parallel writer *)

\* C1: once every handle has been flushed or dropped and no I/O error
\* occurred, a file written with append=true only (closes and flushes
\* interleaved at will) holds every byte of every write call exactly once.
C1_AggregateLength ==
    ((\A c \in Clients : Flushed(c) /\ falseAt[c] = 0) /\ error = NoError)
        => /\ Len(data) = Sum(wcount, Clients)
           /\ \A c \in Clients : OfClient(data, c) = Bytes(c, 1, wcount[c])

\* Both handles wrote append=true bytes, one closed in between, both were
\* dropped: the file holds all the bytes.
C1_Witness ==
    /\ \A c \in Clients : pc[c] = "done" /\ falseAt[c] = 0 /\ wcount[c] >= 2
    /\ \E c \in Clients : closedAt[c] >= 1
    /\ error = NoError
    /\ Len(data) = Sum(wcount, Clients)

\* C2: the bytes of one handle reach the sink in the order of its write
\* calls; when flush returns Ok every byte written on the handle so far has
\* been issued; a handle used alone and never closed leaves the
\* concatenation of its writes in the file.
C2_FlushOrder ==
    \A c \in Clients :
        /\ OfClient(issued, c) = Bytes(c, 1, Len(OfClient(issued, c)))
        /\ FlushOk(c) => OfClient(issued, c) = Bytes(c, 1, wcount[c])
        /\ (FlushOk(c) /\ Alone(c) /\ closedAt[c] = -1) => data = Bytes(c, 1, wcount[c])

\* One handle alone, never closed, has flushed at least three bytes.
C2_Witness ==
    /\ FlushOk(1) /\ wcount[1] >= 3 /\ Alone(1) /\ closedAt[1] = -1
    /\ data = Bytes(1, 1, wcount[1])

C4_Original ==
    poison => \A c \in Clients : (pc[c] = "idle" /\ op[c] = "flush") => ret[c] # Ok

\* C4 amended: on a poisoned file every flush on a handle that has written
\* before returns an error, and every error a call returns is the owner's
\* stored I/O error.
C4_ErrorLatching ==
    poison => \A c \in Clients :
        /\ (pc[c] = "idle" /\ op[c] = "flush" /\ wcount[c] > 0) => ret[c] = POISON_MSG
        /\ ret[c] \in {Ok, POISON_MSG}

\* On a poisoned file both handles wrote and their flushes returned the
\* sink's error.
C4_Witness ==
    /\ poison
    /\ \A c \in Clients : pc[c] = "idle" /\ op[c] = "flush" /\ wcount[c] > 0
                          /\ ret[c] = POISON_MSG
    /\ nops >= 5

\* C5: no drop assertion ever fails, neither WriteGuard's in a client nor
\* Request's in the owner thread.
C5_DropAssertions ==
    /\ \A c \in Clients : pc[c] # "assert_failed"
    /\ opc # "assert_failed"

\* C6: the guard a pending Write request points at has not been freed and
\* has not been taken (cleared and re-activated) as the current batch.
C6_GuardsOutliveRequests ==
    \A r \in PendingWrites :
        /\ heap[r.c][r.g].status # FREE
        /\ cur_batch[r.c] # r.g

\* C7: when the owner opens the sink, the append flag of the first write
\* call it received while closed decides between appending and truncating,
\* and no other write call's flag does.
C7_FirstWriteDecides ==
    [][(/\ opc # "clear" /\ opc' = "clear" /\ error = NoError
        /\ ~writer /\ n_writes(batch') > 0)
          => LET w == Head(SelectSeq(batch', IsWrite))
                 first == heap[w.c][w.g].data[1]
             IN  data' = (IF first.a THEN data ELSE <<>>)
                            \o (IF error' = NoError THEN io_vec(batch') ELSE <<>>)]_vars

----------------------------------------------------------------------------
(* Vocabulary of run_main's properties *)

StageNo(stage) == IF stage = "begin" THEN 1 ELSE IF stage = "main_loop" THEN 2 ELSE 3

Running(i) == wst[i].st = "running"
Finished(i) == wst[i].st \in {"sent", "panicked"}
Panicked == \E i \in Shards : wst[i].st = "panicked"
Sent == {i \in Shards : wst[i].st = "sent"}

\* C8: in a parallel run no main_loop (the main thread's or a worker's)
\* starts before the begin stage has completed and standard output has been
\* flushed; a worker's result is combined only after that worker's main_loop
\* returned, each combine takes the oldest result of the channel (arrival
\* order); the end stage runs only after the main thread's main_loop has
\* returned, every worker has finished and every result sent has been
\* combined; stages run in the order begin, main_loop, end.
C8_StagesInOrder ==
    /\ \A j, k \in 1..Len(log) : j < k => StageNo(log[j][1]) < StageNo(log[k][1])
    /\ (Parallel /\ (Ran("main_loop") \/ \E i \in Shards : wst[i].st # "unspawned"))
          => stdout_flushed /\ (cfg.begin => Ran("begin"))
    /\ \A k \in 1..Len(combined) : wst[combined[k]].st = "sent"
    /\ \A k \in 1..Len(results) : wst[results[k]].st = "sent"
    /\ (Parallel /\ Ran("end"))
          => /\ Ran("main_loop") /\ mpc \in {"join", "ok", "err"}
             /\ \A i \in Shards : Finished(i)
             /\ results = <<>>
             /\ Range(combined) = Sent /\ Len(combined) = Cardinality(Sent)

\* C8 (arrival order): a combine takes the head of the result channel.
C8_ArrivalOrder ==
    [][combined' # combined =>
          /\ results # <<>>
          /\ combined' = Append(combined, Head(results))
          /\ results' = Tail(results)]_vars

\* C8, both parts.
C8_StageOrdering == []C8_StagesInOrder /\ C8_ArrivalOrder

\* A parallel run with two workers, whose results arrived as 1 then 0, ends
\* Ok after all of begin, main_loop and end.
C8_Witness ==
    /\ Parallel /\ mpc = "ok" /\ combined = <<1, 0>>
    /\ [k \in 1..Len(log) |-> log[k][1]] = <<"begin", "main_loop", "end">>

\* C9: if a worker panics, run_main returns the single error and the
\* partial results are discarded: no other worker's result is combined into
\* the main runtime and the end stage does not run.
C9_PanicDiscards ==
    /\ (Panicked /\ mpc \in {"ok", "err"}) => mpc = "err"
    /\ mpc = "err" => (combined = <<>> /\ ~Ran("end"))

\* C10: the main thread runs its main_loop with pid 1, the worker of shard
\* i (from 0) runs with pid i + 2, so that the main_loops running at the
\* same time have pairwise distinct, nonzero pids; the end stage of a
\* parallel run runs with pid 0.
C10_DistinctPids ==
    /\ mpc = "main_loop" => pid = 1
    /\ \A i \in Shards : wst[i].st # "unspawned" => wst[i].pid = i + 2
    /\ \A i \in Shards : Running(i) =>
          /\ wst[i].pid # 0
          /\ mpc = "main_loop" => wst[i].pid # pid
          /\ \A j \in Shards : (Running(j) /\ j # i) => wst[j].pid # wst[i].pid
    /\ \A k \in 1..Len(log) :
          /\ (Parallel /\ log[k][1] = "main_loop") => log[k][2] = 1
          /\ (Parallel /\ log[k][1] = "end") => log[k][2] = 0

\* Two workers and the main thread inside main_loop at once, then the end
\* stage.
C10_Witness ==
    /\ Parallel /\ Cardinality(Shards) = 2
    /\ \A i \in Shards : wst[i].st = "sent"
    /\ Ran("end") /\ mpc = "ok"

----------------------------------------------------------------------------
(* Vocabulary of the lexer's properties *)

TokKind(i) == toks[i].tok.kind
PrevKind(i) == IF i = 1 THEN "None" ELSE TokKind(i - 1)
LastKind == IF toks = <<>> THEN "None" ELSE TokKind(Len(toks))
StartByte(i) == byte(text, toks[i].l.offset)
ByteIs(k, b) == k < Len(text) /\ byte(text, k) = b
DivContext == {"Ident", "StrLit", "PatLit", "ILit", "FLit", "RParen"}

(* C11: a '/' that is not followed by '=' is lexed as Div when the token    *)
(* emitted before it is an Ident, StrLit, PatLit, ILit, FLit or RParen;     *)
(* after any other token, and at the start of the input, it begins a regex  *)
(* literal (a PatLit, or the error of an unterminated one). Nothing but the *)
(* previously emitted token enters the decision.                            *)
C11_SlashDecision ==
    /\ \A i \in 1..Len(toks) :
          StartByte(i) = "/" /\ ~ByteIs(toks[i].l.offset + 1, "=") =>
              TokKind(i) = (IF PrevKind(i) \in DivContext THEN "Div" ELSE "PatLit")
    /\ lres.kind = "Err" /\ ByteIs(lres.at, "/") =>
          /\ LastKind \notin DivContext
          /\ lres.desc = "incomplete regex literal"

\* a Div after a token of the division context and, later in the same text,
\* a regex literal after a token outside it
C11_Witness ==
    \E i, j \in 1..Len(toks) :
        /\ i < j
        /\ StartByte(i) = "/" /\ TokKind(i) = "Div" /\ PrevKind(i) \in DivContext
        /\ StartByte(j) = "/" /\ TokKind(j) = "PatLit" /\ PrevKind(j) \notin DivContext

(* C12: in the token stream of one input, every token's span is non-empty   *)
(* (its start offset is smaller than its end offset) and a token ends at or *)
(* before the offset where the next token starts: the spans do not overlap  *)
(* and their offsets increase.                                              *)
C12_SpansOrdered ==
    \A i \in 1..Len(toks) :
        /\ toks[i].l.offset <= toks[i].r.offset
        /\ toks[i].l.offset # toks[i].r.offset
        /\ i < Len(toks) => toks[i].r.offset <= toks[i + 1].l.offset

\* three tokens, the later ones after a newline, with skipped bytes between two of them
C12_Witness ==
    /\ Len(toks) >= 3
    /\ \E i \in 1..(Len(toks) - 1) : toks[i].r.offset < toks[i + 1].l.offset
    /\ \E i \in 1..Len(toks) : lines(text) # <<>> /\ toks[i].l.offset > lines(text)[1]

\* the location of byte index ix as the documentation of Loc states it
NewlinesBefore(ix) == Cardinality({k \in 0..(ix - 1) : ByteIs(k, "\n")})
LineStart(ix) ==
    IF NewlinesBefore(ix) = 0 THEN 0
    ELSE 1 + CHOOSE k \in 0..(ix - 1) :
                 ByteIs(k, "\n") /\ \A j \in (k + 1)..(ix - 1) : ~ByteIs(j, "\n")
ExpectedLoc(ix) ==
    [line |-> NewlinesBefore(ix), col |-> ix - LineStart(ix), offset |-> ix]

(* C13: every location index_to_loc computes for a byte index ix of the     *)
(* text (the two ends of each token's span and the location of an error)    *)
(* has offset ix, line equal to the number of newline bytes at offsets      *)
(* smaller than ix, and col equal to the number of bytes between the start  *)
(* of that line and ix; so the line never decreases as ix grows.            *)
C13_IndexToLoc ==
    /\ \A i \in 1..Len(toks) :
          /\ toks[i].l = ExpectedLoc(toks[i].l.offset)
          /\ toks[i].r = ExpectedLoc(toks[i].r.offset)
          /\ toks[i].l.line <= toks[i].r.line
          /\ i < Len(toks) => toks[i].r.line <= toks[i + 1].l.line
    /\ lres.kind = "Err" => lres.location = ExpectedLoc(lres.at + 1)

\* the value of each escape sequence, as bytes
EscapeValue ==
    [c \in {"n", "t", "\"", "\\", "r", "a", "b", "f", "v"} |->
        IF c = "n" THEN "\n" ELSE IF c = "t" THEN "\t" ELSE IF c = "r" THEN "\r"
        ELSE IF c = "a" THEN "07" ELSE IF c = "b" THEN "08"
        ELSE IF c = "f" THEN "0C" ELSE IF c = "v" THEN "0B" ELSE c]

\* a body read left to right as escape pairs and single chars
RECURSIVE Unescaped(_)
Unescaped(cs) ==
    IF cs = <<>> THEN <<>>
    ELSE IF cs[1] = "\\" /\ Len(cs) >= 2
    THEN (IF cs[2] \in DOMAIN EscapeValue THEN <<EscapeValue[cs[2]]>>
          ELSE <<"\\">> \o encode_utf8(cs[2]))
         \o Unescaped(SubSeq(cs, 3, Len(cs)))
    ELSE encode_utf8(cs[1]) \o Unescaped(Tail(cs))

(* C14: parse_string_literal turns \n, \t, \", \\, \r, \a, \b, \f and \v    *)
(* into the one byte each stands for (\a 0x07, \b 0x08, \f 0x0C, \v 0x0B),  *)
(* passes any other backslash followed by a char x through as the two chars *)
(* backslash and x, and copies every other char unchanged; a body without   *)
(* a backslash, multi-byte chars included, comes back byte for byte.        *)
C14_Escapes ==
    parsed # "unparsed" =>
        /\ parsed = Unescaped(lit)
        /\ "\\" \notin Range(lit) => parsed = as_bytes(lit)

\* a parsed body with an escape of the table, and one with an escape outside it
\* next to a three-byte char
C14_Witness ==
    /\ parsed # "unparsed"
    /\ \E i \in 1..(Len(lit) - 2) :
          /\ lit[i] = "\\" /\ lit[i + 1] \in {"a", "b", "f", "v"}
          /\ lit[i + 2] = "U+91CD"
          /\ Len(parsed) = Len(as_bytes(lit)) - 1

\* the number of backslashes in a row that end just before offset k, counted
\* no further back than offset from
RECURSIVE BackslashRun(_, _)
BackslashRun(from, k) ==
    IF k > from /\ ByteIs(k - 1, "\\") THEN 1 + BackslashRun(from, k - 1) ELSE 0

\* an unescaped delimiter at offset k, for a literal whose body starts at from
ClosesAt(from, k, delim) == ByteIs(k, delim) /\ BackslashRun(from, k) % 2 = 0
HasClose(from, delim) == \E k \in from..(Len(text) - 1) : ClosesAt(from, k, delim)

(* C15: when an opening '"' (or a '/' in regex position) has no later       *)
(* unescaped matching delimiter, next returns an Err with a source location *)
(* and the description "incomplete string literal" (for '/': "incomplete    *)
(* regex literal"), and no StrLit or PatLit is emitted for it; an error is  *)
(* returned for nothing else, and at the end of the input next returns     *)
(* None.                                                                    *)
C15_IncompleteLiteral ==
    /\ lres.kind = "Err" =>
          /\ \/ ByteIs(lres.at, "\"") /\ lres.desc = "incomplete string literal"
             \/ /\ ByteIs(lres.at, "/") /\ LastKind \notin DivContext
                /\ lres.desc = "incomplete regex literal"
          /\ ~HasClose(lres.at + 1, byte(text, lres.at))
          /\ lres.location.offset = lres.at + 1
          /\ DOMAIN lres.location = {"line", "col", "offset"}
    /\ \A i \in 1..Len(toks) :
          /\ StartByte(i) = "\"" => TokKind(i) = "StrLit"
          /\ TokKind(i) \in {"StrLit", "PatLit"} =>
                /\ StartByte(i) = (IF TokKind(i) = "StrLit" THEN "\"" ELSE "/")
                /\ ClosesAt(toks[i].l.offset + 1, toks[i].r.offset - 1, StartByte(i))
                /\ \A k \in (toks[i].l.offset + 1)..(toks[i].r.offset - 2) :
                      ~ClosesAt(toks[i].l.offset + 1, k, StartByte(i))
    /\ lres.kind \in {"None", "panic"} =>
          /\ ~ByteIs(lres.at, "\"")
          /\ ByteIs(lres.at, "/") => LastKind \in DivContext
    /\ lres.kind \in {"Ok", "Err", "None", "panic"} /\ lres.at = Len(text) =>
          lres.kind = "None"

\* an error for a string whose only later quote is escaped
C15_Witness ==
    /\ lres.kind = "Err" /\ lres.desc = "incomplete string literal"
    /\ \E k \in (lres.at + 2)..(Len(text) - 1) : ByteIs(k, "\"") /\ ByteIs(k - 1, "\\")

\* the offset after the maximal run of identifier-body chars that starts at k
RECURSIVE IdRunEnd(_)
IdRunEnd(k) ==
    IF k < Len(text) /\ is_id_body(char_at(text, k))
    THEN IdRunEnd(k + len_utf8(char_at(text, k)))
    ELSE k

IsKeyword(bs) == \E k \in KEYWORDS : k.bs = bs

(* C16: a token that starts at an identifier-start char ('_' or XID_Start), *)
(* unless the identifier there is a keyword, is the one token for the whole *)
(* identifier: its name is the maximal run of identifier-body chars, also   *)
(* when chars are multi-byte; it is CallStart(name), ending after the       *)
(* paren, if the byte right after the identifier is '(', and Ident(name),   *)
(* ending with the identifier, otherwise. Lexing an identifier does not     *)
(* panic.                                                                   *)
C16_WholeIdentifier ==
    /\ lres.kind # "panic"
    /\ \A i \in 1..Len(toks) :
          LET s == toks[i].l.offset
              e == IdRunEnd(s)
              name == slice(text, s, e)
          IN  is_id_start(char_at(text, s)) /\ ~IsKeyword(name) =>
                  /\ toks[i].tok.s = name
                  /\ IF ByteIs(e, "(")
                     THEN TokKind(i) = "CallStart" /\ toks[i].r.offset = e + 1
                     ELSE TokKind(i) = "Ident" /\ toks[i].r.offset = e

----------------------------------------------------------------------------
(* Vocabulary of the generator's properties *)

\* Generator::init has returned Ok
Built == gen.st \in {"built", "verified"}

\* the keys of the Printf and Sprintf sites of function f, in program order
RECURSIVE KeysOf(_)
KeysOf(insts) ==
    IF insts = <<>> THEN <<>>
    ELSE IF Head(insts).op \in {"Printf", "Sprintf"} /\ ~Head(insts).hl
    THEN <<[tys |-> [i \in 1..Len(Head(insts).args) |-> Head(insts).args[i][2]],
            kind |-> IF Head(insts).op = "Sprintf" THEN "Sprintf"
                     ELSE IF Head(insts).output # "" THEN "File" ELSE "Stdout"]>>
         \o KeysOf(Tail(insts))
    ELSE KeysOf(Tail(insts))

SiteKeys(f) == IF gen.funcs[f].entry THEN KeysOf(gen.types.frames[f].cfg.nodes[1]) ELSE <<>>

\* the functions the emitted code of f calls that are no runtime intrinsic,
\* in program order
SiteCalls(f) ==
    LET calls == SelectSeq(IF gen.funcs[f].entry THEN gen.funcs[f].code[1] ELSE <<>>,
                           LAMBDA i : i.op = "call"
                                      /\ i.fn \in {gen.module[k] : k \in 1..Len(gen.module)})
    IN  [k \in 1..Len(calls) |-> calls[k].fn]

Sites == {<<f, k>> \in (1..2) \X (1..2) : f <= Len(gen.funcs) /\ k <= Len(SiteKeys(f))}

\* C19: once the functions are lowered, the printf table holds one wrapper
\* for each key of a site and nothing else, each site calls the wrapper of
\* its key, sites of different keys call different wrappers, and no two
\* wrappers have the same name.
C19_OneWrapperPerKey ==
    Built =>
        /\ DOMAIN gen.printfs = {SiteKeys(s[1])[s[2]] : s \in Sites}
        /\ Len(gen.module) = Cardinality(DOMAIN gen.printfs)
        /\ \A k1, k2 \in DOMAIN gen.printfs : k1 # k2 => gen.printfs[k1] # gen.printfs[k2]
        /\ \A i, j \in 1..Len(gen.module) : i # j => gen.module[i] # gen.module[j]
        /\ \A f \in 1..Len(gen.funcs) : Len(SiteCalls(f)) = Len(SiteKeys(f))
        /\ \A s \in Sites : SiteCalls(s[1])[s[2]] = gen.module[gen.printfs[SiteKeys(s[1])[s[2]]]]
        /\ \A s, t \in Sites :
               SiteKeys(s[1])[s[2]] = SiteKeys(t[1])[t[2]] <=> SiteCalls(s[1])[s[2]] = SiteCalls(t[1])[t[2]]

\* three sites: two of one key in different functions, and one that differs
\* from them in its kind only
C19_Witness ==
    /\ Built
    /\ Cardinality(Sites) = 3
    /\ SiteKeys(1)[1] = SiteKeys(2)[1]
    /\ SiteCalls(1)[1] = SiteCalls(2)[1]
    /\ SiteKeys(1)[2].tys = SiteKeys(1)[1].tys
    /\ SiteKeys(1)[2].kind # SiteKeys(1)[1].kind
    /\ SiteCalls(1)[2] # SiteCalls(1)[1]


----------------------------------------------------------------------------
(* Opcodes with no lowering *)

\* the nodes of function f (1-based) that its entry node reaches
NodesReached(f) ==
    LET graph == gen.types.frames[f].cfg
        N == 0..Len(graph.nodes) - 1
        succ == [n \in N |-> {graph.edges[k].to :
                                 k \in {k \in 1..Len(graph.edges) : graph.edges[k].from = n}}]
    IN  reach(succ, {0}, {})

\* the opcodes without a lowering among the low-level instructions of the
\* nodes S of function f
UnsupportedIn(f, S) ==
    {gen.types.frames[f].cfg.nodes[n + 1][k].op :
        <<n, k>> \in {nk \in S \X (1..2) :
                        /\ nk[2] <= Len(gen.types.frames[f].cfg.nodes[nk[1] + 1])
                        /\ ~gen.types.frames[f].cfg.nodes[nk[1] + 1][nk[2]].hl
                        /\ gen.types.frames[f].cfg.nodes[nk[1] + 1][nk[2]].op \in Unsupported}}

AllNodes(f) == 0..Len(gen.types.frames[f].cfg.nodes) - 1

ErrorFor(o) ==
    IF o \in {"Push", "Pop"} THEN "unexpected explicit push/pop in llvm"
    ELSE IF o = "AllocMap" THEN "unexpected AllocMap (allocs are handled differently in LLVM)"
    ELSE "unexpected bytecode-level control flow"

\* init has returned an error for function f and has lowered no function after it
FailsAt(f, ops) ==
    /\ gen.st = "error"
    /\ gen.err \in {ErrorFor(o) : o \in ops}
    /\ \A j \in f + 1..Len(gen.funcs) : ~gen.funcs[j].entry

\* C20 as stated: once init has returned, the first function that contains
\* an opcode without a lowering, in any node and called or not, has made
\* init fail with the error of such an opcode, and no later function is lowered.
C20_Original ==
    gen.st # "new" =>
        \A f \in 1..Len(gen.funcs) :
            (/\ UnsupportedIn(f, AllNodes(f)) # {}
             /\ \A j \in 1..f - 1 : UnsupportedIn(j, AllNodes(j)) = {})
            => FailsAt(f, UnsupportedIn(f, AllNodes(f)))

\* whether lowering function f meets an opcode without a lowering
Meets(f) == gen.types.frames[f].is_called /\ UnsupportedIn(f, NodesReached(f)) # {}

\* C20, amended: once init has returned, the first function that is called
\* and holds an opcode without a lowering in a node its entry node reaches
\* has made init fail with the error of such an opcode, and no function
\* after it is lowered.
C20_FailFast ==
    gen.st # "new" =>
        \A f \in 1..Len(gen.funcs) :
            (Meets(f) /\ \A j \in 1..f - 1 : ~Meets(j))
            => FailsAt(f, UnsupportedIn(f, NodesReached(f)))

\* init failed in the first function although the second one is called and
\* holds such an opcode too
C20_Witness ==
    /\ gen.st = "error"
    /\ Meets(1) /\ Meets(2)
    /\ gen.funcs[1].entry /\ ~gen.funcs[2].entry


----------------------------------------------------------------------------
(* The emitted module and the verifier *)

\* C18: when every function of the program satisfies the SSA contract, the
\* module that init emitted verifies: each value an emitted instruction
\* uses, the drops of a return and the incoming values of a phi included,
\* is defined in a block that dominates the use.
C18_ModuleVerifies ==
    (/\ gen.st = "verified"
     /\ \A f \in 1..Len(gen.types.frames) : SSA(gen.types.frames[f]))
    => "dominance" \notin gen.problems


----------------------------------------------------------------------------
(* Reference counts over one call of a generated function *)

\* the cells the caller passed by pointer: globals and string arguments
CallerCells == {c \in DOMAIN run.cells : c[2] < 0}

\* the count a string or map had when the function was entered: the caller
\* holds one reference to each object it passes, an object made by the
\* function did not exist
InitialCount(o) == IF o[2] < 0 THEN 1 ELSE 0

\* the caller's cells that held o when the function was entered
InitialCells(o) == IF o[2] < 0 THEN {<<"cell", o[2]>>} \cap CallerCells ELSE {}

\* o is not the returned value and the function has neither stored it into
\* nor removed it from a cell of the caller
NotHandedOver(o) ==
    /\ o # run.ret
    /\ {c \in CallerCells : run.cells[c] = o} = InitialCells(o)

\* C17: when a generated function returns, every string or map that is not
\* the return value and was not stored into a slot of the caller has the
\* reference count it had when the function was entered: each ref is
\* matched by exactly one drop.
C17_RefCountConservation ==
    run.st = "returned" =>
        \A o \in DOMAIN run.rc : NotHandedOver(o) => run.rc[o] = InitialCount(o)


----------------------------------------------------------------------------
(* The in-flight FIFO after clear_guards *)

\* handle c takes the step in which clear_guards returns Ok: clear_batch
\* goes on to its send
ClearGuardsOk(c) == pc[c] = "idle" /\ pc'[c] = "send_write"

\* C21: when clear_guards returns Ok, the completed guards at the head of
\* the in-flight FIFO are gone: the FIFO is empty or its first guard is
\* ONGOING, every guard removed had status OK, and old_guards holds at most
\* IO_CHAN_SIZE guards.
C21_HeadDrained ==
    [][\A c \in Clients :
          ClearGuardsOk(c) =>
              /\ \/ guards'[c] = <<>>
                 \/ heap'[c][Head(guards'[c])].status = ONGOING
              /\ \A k \in 1..(Len(guards[c]) - Len(guards'[c])) :
                     heap[c][guards[c][k]].status = OK
              /\ Len(old_guards'[c]) <= IO_CHAN_SIZE]_vars


----------------------------------------------------------------------------
(* The owner after its first I/O failure *)

Failed == error # NoError

\* the error slot is written once and never cleared
ErrorKept == [][Failed => error' = error]_vars

\* no byte is issued to the sink once the error is stored
NothingIssued == [][Failed => issued' = issued]_vars

\* no request of the failing batch, and none received later, is completed
\* with OK
NeverOk ==
    [][Failed' =>
          /\ \A c \in Clients, a \in GuardIds :
                 heap'[c][a].status = OK => heap[c][a].status = OK
          /\ \A c \in Clients : fstat'[c] = OK => fstat[c] = OK]_vars

\* C22: after the owner's first I/O failure the error is in the shared
\* slot for good, every request of the failing batch and every later
\* request is completed with ERROR and never OK, no further byte is issued
\* to the sink, and the owner goes on completing requests: it does not stop
\* while a sender may still send.
C22_ErrorDraining ==
    /\ ErrorKept
    /\ NothingIssued
    /\ NeverOk
    /\ [](Failed => ReceiverAlive)


----------------------------------------------------------------------------
(* The writer under fair scheduling *)

\* a step of the owner thread
OwnerStep ==
    \/ OwnerRecv
    \/ OwnerTryRecv
    \/ OwnerTryRecvEmpty
    \/ OwnerSetCode
    \/ OwnerDropReq

\* a step of client c inside the call it has begun
ClientStep(c) ==
    \/ SendWrite(c)
    \/ SendFlush(c)
    \/ SendClose(c)
    \/ SendFails(c)
    \/ FlushWait(c)

\* the number of write, flush and close calls made in a fair run
LiveOps == 4

\* The handles of a file whose sink fails every write and every flush
\* (FakeFile::set_poison(true)), with LiveOps calls to make.
FailingInit ==
    /\ poison = TRUE
    /\ data = <<>> /\ issued = <<>>
    /\ chan = <<>> /\ error = NoError
    /\ opc = "recv" /\ batch = <<>> /\ held = FALSE /\ writer = FALSE
    /\ pc = [c \in Clients |-> "idle"]
    /\ op = [c \in Clients |-> "none"]
    /\ arg = [c \in Clients |-> [n |-> 0, append |-> FALSE]]
    /\ ret = [c \in Clients |-> Ok]
    /\ cur_batch = [c \in Clients |-> 1]
    /\ guards = [c \in Clients |-> <<>>]
    /\ old_guards = [c \in Clients |-> <<>>]
    /\ heap = [c \in Clients |-> InitHeap]
    /\ fstat = [c \in Clients |-> "none"]
    /\ wcount = [c \in Clients |-> 0]
    /\ closedAt = [c \in Clients |-> -1]
    /\ trueAt = [c \in Clients |-> 0]
    /\ falseAt = [c \in Clients |-> 0]
    /\ nops = MaxOps - LiveOps
    /\ PIdle /\ XIdle

\* The owner thread is scheduled whenever it can take a step, and so is a
\* client that is inside a call.
WriterFairSpec ==
    /\ FailingInit
    /\ [][WNext]_vars
    /\ WF_vars(OwnerStep)
    /\ \A c \in Clients : WF_vars(ClientStep(c))

\* handle c is inside a call: about to send, or waiting for the
\* notification of its Flush request
InCall(c) == pc[c] \in {"send_write", "send_flush", "send_close", "wait"}

\* C23: under fair scheduling every flush returns: a handle that waits for
\* the notification of its Flush request is eventually notified, and a
\* handle that is sending does not stay blocked on the channel forever.
C23_FlushReturns == \A c \in Clients : InCall(c) ~> ~InCall(c)


----------------------------------------------------------------------------
(* The iterators of the generated code *)

\* the running function has just executed the iter_begin that binds it
IterBegun(it) ==
    /\ run.st = "running" /\ run.ix > 1
    /\ it \in DOMAIN gen.funcs[run.f].iters
    /\ gen.funcs[run.f].code[run.bb][run.ix - 1].id = gen.funcs[run.f].iters[it].len.id

\* the cell of the cursor of it
Cursor(it) == run.cells[<<"cell", gen.funcs[run.f].iters[it].cur_index.id>>]

\* C24: each time an iter_begin has executed, the first time or again in a
\* later pass of an enclosing loop, the cursor of its iterator is 0, so that
\* the iteration that follows starts at iter_ptr[0].
C24_CursorZeroAtBegin ==
    \A it \in {<<"it", "IterInt">>} :
        IterBegun(it) => Cursor(it) \in {<<"null", 0>>, <<"num", 0>>}


----------------------------------------------------------------------------
(* The drops of a return *)

\* the functions the generator has lowered without an error
Lowered == {f \in DOMAIN gen.funcs : gen.funcs[f].entry /\ gen.err = ""}

\* the positions of the return instructions the IR of f holds
RetSites(f) ==
    LET nodes == gen.types.frames[f].cfg.nodes
    IN  {s \in UNION {{<<n, j>> : j \in 1..Len(nodes[n])} : n \in 1..Len(nodes)} :
             nodes[s[1]][s[2]].hl /\ nodes[s[1]][s[2]].op = "Ret"}

\* the register the return at s returns
Returned(f, s) ==
    <<gen.types.frames[f].cfg.nodes[s[1]][s[2]].src, gen.types.frames[f].cfg.nodes[s[1]][s[2]].ty>>

DropFns == {"drop_str"} \cup {"drop_" \o kv(ty) : ty \in MapTys}

\* how many drops of the value val the block b of f holds
DropsOf(f, b, val) ==
    Cardinality({k \in 1..Len(gen.funcs[f].code[b]) :
                     /\ gen.funcs[f].code[b][k].op = "call"
                     /\ gen.funcs[f].code[b][k].fn \in DropFns
                     /\ gen.funcs[f].code[b][k].args = <<val>>})

\* the string and map registers of the local table that the return at s
\* has to drop
Droppable(f, s) ==
    {reg \in DOMAIN gen.funcs[f].locals :
         /\ reg[2] \in MapTys \cup {"Str"}
         /\ reg \notin gen.funcs[f].skip_drop
         /\ reg # Returned(f, s)}

\* C25: in the block of each return there is exactly one drop for every
\* string or map register of the local table that is neither the returned
\* register nor marked skip_drop, also when several registers are bound to
\* one value.
C25_OneDropPerLocal ==
    \A f \in Lowered : \A s \in RetSites(f) :
        \A val \in {gen.funcs[f].locals[reg] : reg \in DOMAIN gen.funcs[f].locals} :
            DropsOf(f, s[1], val) =
                Cardinality({reg \in Droppable(f, s) : gen.funcs[f].locals[reg] = val})


----------------------------------------------------------------------------
(* Binding a value to a global *)

\* the Movs of the IR of f whose destination is a global, as <<node, index>>
GlobalMovs(f) ==
    LET frame == gen.types.frames[f]
        nodes == frame.cfg.nodes
    IN  {s \in UNION {{<<n, j>> : j \in 1..Len(nodes[n])} : n \in 1..Len(nodes)} :
             /\ nodes[s[1]][s[2]].op = "Mov"
             /\ \E i \in 1..Len(frame.globals) :
                    frame.globals[i] = <<nodes[s[1]][s[2]].dst, nodes[s[1]][s[2]].ty>>}

\* the parameter that points to the i-th global of f
GlobalParam(f, i) == Param(Len(gen.types.frames[f].args) - 1 + i)

IsCall(i, fn, args) == i.op = "call" /\ i.fn = fn /\ i.args = args

\* the instructions at k.. of the code c bind a value to the global of type
\* ty behind param, and c has n instructions that write param or count its
\* content
BindsGlobalAt(c, k, ty, param) ==
    IF ty \in MapTys
    THEN /\ k + 3 <= Len(c)
         /\ c[k].op = "load" /\ c[k].args = <<param>>
         /\ IsCall(c[k + 1], "drop_" \o kv(ty), <<Inst(c[k].id)>>)
         /\ c[k + 2].op = "call" /\ c[k + 2].fn = "ref_map"
         /\ c[k + 3].op = "store" /\ c[k + 3].args = c[k + 2].args \o <<param>>
    ELSE IF ty = "Str"
    THEN /\ k + 2 <= Len(c)
         /\ IsCall(c[k], "drop_str", <<param>>)
         /\ c[k + 1].op = "store" /\ c[k + 1].args[2] = param
         /\ IsCall(c[k + 2], "ref_str", <<param>>)
    ELSE /\ k <= Len(c)
         /\ c[k].op = "store" /\ c[k].args[2] = param

\* the instructions of c that write through param, or drop what it holds
Touches(c, param) ==
    {k \in 1..Len(c) : \/ c[k].op = "store" /\ c[k].args[2] = param
                       \/ IsCall(c[k], "drop_str", <<param>>)}

\* The code of a Mov to a global is the sequence of its type, emitted once,
\* and the global is not in the local table.
GlobalBindOrder ==
    \A f \in Lowered : \A s \in GlobalMovs(f) :
        LET frame == gen.types.frames[f]
            inst == frame.cfg.nodes[s[1]][s[2]]
            reg == <<inst.dst, inst.ty>>
            param == GlobalParam(f, CHOOSE i \in 1..Len(frame.globals) : frame.globals[i] = reg)
            c == gen.funcs[f].code[s[1]]
        IN  /\ reg \notin DOMAIN gen.funcs[f].locals
            /\ Cardinality({k \in 1..Len(c) : BindsGlobalAt(c, k, inst.ty, param)}) = 1
            /\ Cardinality(Touches(c, param)) = (IF inst.ty = "Str" THEN 2 ELSE 1)

\* the value of the LLVM value val in the running function
ValueOf(val) ==
    IF val.k = "param" THEN run.params[val.id + 1]
    ELSE IF val.k = "const" THEN <<"null", 0>>
    ELSE run.env[val.id]

\* the running function stands at the ref_map of a bind to a global map
AtGlobalRef ==
    /\ run.st = "running"
    /\ run.ix > 2 /\ run.ix < Len(gen.funcs[run.f].code[run.bb])
    /\ \E i \in 1..Len(gen.types.frames[run.f].globals) :
           BindsGlobalAt(gen.funcs[run.f].code[run.bb], run.ix - 2,
                         gen.types.frames[run.f].globals[i][2], GlobalParam(run.f, i))
    /\ gen.funcs[run.f].code[run.bb][run.ix].fn = "ref_map"

\* the object the ref_map at hand is about to count
NewPointer == ValueOf(gen.funcs[run.f].code[run.bb][run.ix].args[1])

\* C26: a bind to a global emits drop, store, ref for a string, load, drop,
\* ref, store for a map and one store for another type, the global stays
\* out of the local table, and when the ref_map of a bind to a global map
\* executes, the new pointer has not been released: its count is not 0,
\* also when the new pointer is the old one.
C26_GlobalBind ==
    /\ GlobalBindOrder
    /\ AtGlobalRef /\ NewPointer \in DOMAIN run.rc => run.rc[NewPointer] > 0


----------------------------------------------------------------------------
(* The slots of the local strings *)

\* the string registers of f that bind_val has bound: the other strings of
\* the local table are the arguments and the phis
StrLocals(f) ==
    {reg \in DOMAIN gen.funcs[f].locals : reg[2] = "Str" /\ reg \notin gen.funcs[f].skip_drop}

\* the stores into the slot that are not in the entry block, as <<block, index>>
StoresInto(f, slot) ==
    {s \in UNION {{<<b, k>> : k \in 1..Len(gen.funcs[f].code[b])} :
                      b \in DOMAIN gen.funcs[f].code \ {0}} :
         /\ gen.funcs[f].code[s[1]][s[2]].op = "store"
         /\ gen.funcs[f].code[s[1]][s[2]].args[2] = slot}

\* the register has its own slot, allocated and zeroed in the entry block,
\* and the one store into it comes right after the drop of the slot
HasSlot(f, reg) ==
    LET slot == gen.funcs[f].locals[reg]
        code == gen.funcs[f].code
    IN  /\ slot.k = "inst"
        /\ \E k \in 1..Len(code[0]) - 1 :
               /\ code[0][k].op = "alloca" /\ code[0][k].id = slot.id
               /\ code[0][k + 1].op = "store" /\ code[0][k + 1].args = <<ConstInt(0), slot>>
        /\ Cardinality(StoresInto(f, slot)) = 1
        /\ \A s \in StoresInto(f, slot) :
               s[2] > 1 /\ IsCall(code[s[1]][s[2] - 1], "drop_str", <<slot>>)
        /\ \A other \in DOMAIN gen.funcs[f].locals \ {reg} : gen.funcs[f].locals[other] # slot

\* a Mov that reads the local string reg counts and loads through its slot
ReadsSlot(f, reg) ==
    \A n \in 1..Len(gen.types.frames[f].cfg.nodes) :
        \A j \in 1..Len(gen.types.frames[f].cfg.nodes[n]) :
            LET inst == gen.types.frames[f].cfg.nodes[n][j]
                c == gen.funcs[f].code[n]
            IN  inst.op = "Mov" /\ <<inst.src, inst.ty>> = reg /\ c # <<>> =>
                    \E k \in 1..Len(c) - 1 :
                        /\ IsCall(c[k], "ref_str", <<gen.funcs[f].locals[reg]>>)
                        /\ c[k + 1].op = "load" /\ c[k + 1].args = <<gen.funcs[f].locals[reg]>>

\* C27: every string register bound by bind_val has one slot of its own,
\* allocated and zeroed in the entry block; its bind drops the slot right
\* before it stores into it, each time it is executed; the local table maps
\* the register to the slot and the reads of the register go through the
\* slot; no register is inserted into the local table twice.
C27_StringSlots ==
    \A f \in Lowered :
        /\ \A reg \in StrLocals(f) : HasSlot(f, reg) /\ ReadsSlot(f, reg)
        /\ \A i, j \in 1..Len(gen.funcs[f].inserted) :
               i # j => gen.funcs[f].inserted[i] # gen.funcs[f].inserted[j]

\* the bind of a local string is executed again in a loop: the function is
\* about to store into a slot that holds the object of the pass before,
\* which the drop has just given up
C27_Witness ==
    /\ run.st = "running"
    /\ run.f \in Lowered
    /\ \E reg \in StrLocals(run.f) :
           /\ <<run.bb, run.ix>> \in StoresInto(run.f, gen.funcs[run.f].locals[reg])
           /\ run.cells[ValueOf(gen.funcs[run.f].locals[reg])][1] = "obj"


----------------------------------------------------------------------------
(* The place of the stack allocations *)

\* the allocas of f that are not in its entry block, as <<block, index>>
AllocasOutsideEntry(f) ==
    {s \in UNION {{<<b, k>> : k \in 1..Len(gen.funcs[f].code[b])} :
                      b \in DOMAIN gen.funcs[f].code \ {0}} :
         gen.funcs[f].code[s[1]][s[2]].op = "alloca"}

\* C28: every alloca emitted for a function is in its entry block, whatever
\* it is for (a bound string, an iterator cursor, a default return value),
\* so that none is in a block that can execute more than once in a call.
C28_AllocasInEntry == \A f \in Lowered : AllocasOutsideEntry(f) = {}


----------------------------------------------------------------------------
(* The phi nodes *)

\* the Phi instructions of the IR of f, as <<node, index>>, nodes from 1
PhiSites(f) ==
    LET nodes == gen.types.frames[f].cfg.nodes
    IN  {s \in UNION {{<<n, j>> : j \in 1..Len(nodes[n])} : n \in 1..Len(nodes)} :
             nodes[s[1]][s[2]].hl /\ nodes[s[1]][s[2]].op = "Phi"}

\* the phi instructions of the code of f, as <<block, index>>
PhiNodes(f) ==
    {s \in UNION {{<<b, k>> : k \in 1..Len(gen.funcs[f].code[b])} :
                      b \in DOMAIN gen.funcs[f].code} :
         gen.funcs[f].code[s[1]][s[2]].op = "phi"}

\* the Phi at s has its node in the block of s, wired with one incoming
\* pair for each predecessor of the IR, in the order of the IR
Wired(f, s) ==
    LET inst == gen.types.frames[f].cfg.nodes[s[1]][s[2]]
        reg == <<inst.dst, inst.ty>>
        locals == gen.funcs[f].locals
        c == gen.funcs[f].code[s[1]]
    IN  /\ reg \in DOMAIN locals /\ locals[reg].k = "inst"
        /\ \A ps \in DOMAIN inst.args : <<inst.args[ps][2], inst.ty>> \in DOMAIN locals
        /\ \E k \in 1..Len(c) :
               /\ c[k].op = "phi" /\ c[k].id = locals[reg].id
               /\ c[k].args = [ps \in DOMAIN inst.args |-> locals[<<inst.args[ps][2], inst.ty>>]]
               /\ c[k].to = [ps \in DOMAIN inst.args |-> bbs(inst.args[ps][1])]

\* the register of the Phi at s is in skip_drop and no drop names its value
NeverDropped(f, s) ==
    LET inst == gen.types.frames[f].cfg.nodes[s[1]][s[2]]
        reg == <<inst.dst, inst.ty>>
    IN  /\ reg \in gen.funcs[f].skip_drop
        /\ \A b \in DOMAIN gen.funcs[f].code : DropsOf(f, b, gen.funcs[f].locals[reg]) = 0

\* C29: each Phi of a lowered function gives one phi node, whose incoming
\* pairs, once the function is lowered, are the locals of the predecessors'
\* registers with the predecessors' blocks, each listed once; the phi
\* register is in skip_drop and no return drops it.
C29_PhiWiring ==
    \A f \in Lowered :
        /\ Cardinality(PhiNodes(f)) = Cardinality(PhiSites(f))
        /\ \A s \in PhiSites(f) : Wired(f, s) /\ NeverDropped(f, s)

\* a wired phi of two predecessors has just been executed
C29_Witness ==
    /\ run.st = "running" /\ run.f \in Lowered /\ run.ix > 1
    /\ gen.funcs[run.f].code[run.bb][run.ix - 1].op = "phi"
    /\ Len(gen.funcs[run.f].code[run.bb][run.ix - 1].to) = 2
    /\ \E s \in PhiSites(run.f) : s[1] = run.bb


----------------------------------------------------------------------------
(* The terminators *)

\* the edges that leave node n (from 0) of f, with and without a condition
CondEdges(f, n) ==
    SelectSeq(gen.types.frames[f].cfg.edges, LAMBDA e : e.from = n /\ e.cond # "")
PlainEdges(f, n) ==
    SelectSeq(gen.types.frames[f].cfg.edges, LAMBDA e : e.from = n /\ e.cond = "")

Terminators == {"br", "condbr", "ret"}

\* the last instruction of the block of node n is its only terminator
OneTerminator(f, n) ==
    LET c == gen.funcs[f].code[bbs(n)]
    IN  /\ c # <<>>
        /\ \A k \in 1..Len(c) : c[k].op \in Terminators <=> k = Len(c)

\* the block of node n ends with the comparison of the register of its
\* conditional edge with 0 and the branch on it
EndsWithCondBr(f, n) ==
    LET c == gen.funcs[f].code[bbs(n)]
        t == CondEdges(f, n)[1]
        e == PlainEdges(f, n)[1]
    IN  /\ Len(c) >= 2
        /\ c[Len(c) - 1].op = "icmp" /\ c[Len(c) - 1].fn = "ne"
        /\ c[Len(c) - 1].args = <<gen.funcs[f].locals[<<t.cond, "Int">>], ConstInt(0)>>
        /\ c[Len(c)].op = "condbr"
        /\ c[Len(c)].args = <<Inst(c[Len(c) - 1].id)>>
        /\ c[Len(c)].to = <<bbs(t.to), bbs(e.to)>>

EndsWithBr(f, n) ==
    LET c == gen.funcs[f].code[bbs(n)]
        out == CondEdges(f, n) \o PlainEdges(f, n)
    IN  c[Len(c)].op = "br" /\ c[Len(c)].to = <<bbs(out[1].to)>>

EndsWithRet(f, n) ==
    gen.funcs[f].code[bbs(n)][Len(gen.funcs[f].code[bbs(n)])].op = "ret"

----------------------------------------------------------------------------
(* The arguments of a call *)

\* the calls of the IR of f, as <<node, index>>, nodes from 1
CallSites(f) ==
    LET nodes == gen.types.frames[f].cfg.nodes
    IN  {s \in UNION {{<<n, j>> : j \in 1..Len(nodes[n])} : n \in 1..Len(nodes)} :
             nodes[s[1]][s[2]].hl /\ nodes[s[1]][s[2]].op = "Call"}

\* the calls of user functions in the block b of f, in order
UdfCalls(f, b) ==
    SelectSeq(gen.funcs[f].code[b],
              LAMBDA i : i.op = "call" /\ i.fn \in {udf(k - 1) : k \in DOMAIN gen.funcs})

\* the registers of f that something binds before its first call: its
\* arguments and its globals
BoundAtEntry(f) ==
    {gen.types.frames[f].args[i] : i \in 1..Len(gen.types.frames[f].args)}
    \cup {gen.types.frames[f].globals[i] : i \in 1..Len(gen.types.frames[f].globals)}

\* C31: an argument register that nothing bound before the call is passed
\* as the default value of its type in the form the callee takes (for a
\* string the pointer to a zeroed slot), which is the value the local table
\* gives for the register from then on.
C31_DefaultArgument ==
    \A f \in Lowered : \A s \in CallSites(f) :
        LET inst == gen.types.frames[f].cfg.nodes[s[1]][s[2]]
            first == UdfCalls(f, s[1])[1]
        IN  s[2] = 1 =>
                \A i \in DOMAIN inst.args :
                    inst.args[i] \notin BoundAtEntry(f) =>
                        /\ inst.args[i] \in DOMAIN gen.funcs[f].locals
                        /\ first.args[i] = gen.funcs[f].locals[inst.args[i]]


----------------------------------------------------------------------------
(* The owner's batching limits *)

\* the number of write, flush and close calls made with large writes
LargeOps == 3

\* The handles of a file with LargeOps calls to make, of which a write may
\* be as large as the owner's byte limit (a write larger than the handle's
\* buffer goes into one Write request).
LargeInit ==
    /\ poison \in BOOLEAN
    /\ data = <<>> /\ issued = <<>>
    /\ chan = <<>> /\ error = NoError
    /\ opc = "recv" /\ batch = <<>> /\ held = FALSE /\ writer = FALSE
    /\ pc = [c \in Clients |-> "idle"]
    /\ op = [c \in Clients |-> "none"]
    /\ arg = [c \in Clients |-> [n |-> 0, append |-> FALSE]]
    /\ ret = [c \in Clients |-> Ok]
    /\ cur_batch = [c \in Clients |-> 1]
    /\ guards = [c \in Clients |-> <<>>]
    /\ old_guards = [c \in Clients |-> <<>>]
    /\ heap = [c \in Clients |-> InitHeap]
    /\ fstat = [c \in Clients |-> "none"]
    /\ wcount = [c \in Clients |-> 0]
    /\ closedAt = [c \in Clients |-> -1]
    /\ trueAt = [c \in Clients |-> 0]
    /\ falseAt = [c \in Clients |-> 0]
    /\ nops = MaxOps - LargeOps
    /\ PIdle /\ XIdle

LargeNext ==
    \/ \E c \in Clients, n \in {MaxWrite, MAX_BATCH_BYTES}, append \in BOOLEAN : Write(c, n, append)
    \/ \E c \in Clients : Flush(c)
    \/ \E c \in Clients : Close(c)
    \/ \E c \in Clients : Drop(c)
    \/ \E c \in Clients : SendWrite(c)
    \/ \E c \in Clients : SendFlush(c)
    \/ \E c \in Clients : SendClose(c)
    \/ \E c \in Clients : SendFails(c)
    \/ \E c \in Clients : FlushWait(c)
    \/ OwnerRecv
    \/ OwnerTryRecv
    \/ OwnerTryRecvEmpty
    \/ OwnerSetCode
    \/ OwnerDropReq

LargeWriteSpec == LargeInit /\ [][LargeNext]_vars

\* the owner is inside the batching loop of receive_loop, about to take
\* one more request from the channel
Batching == opc = "try_recv"

\* a Flush or a Close ends the batch it is in
CutIsLast == \A i \in 1..Len(batch) : batch[i].type # "Write" => i = Len(batch)

\* C32: a batch holds at most one Flush or Close request, and it is the
\* last request of the batch; it holds at most MAX_BATCH_SIZE Write
\* requests; and the owner takes no further request into a batch whose
\* sizes add up to MAX_BATCH_BYTES or more.
C32_BatchLimits ==
    /\ CutIsLast
    /\ n_writes(batch) <= MAX_BATCH_SIZE
    /\ Batching => /\ n_writes(batch) < MAX_BATCH_SIZE
                   /\ batch_bytes(batch) < MAX_BATCH_BYTES


----------------------------------------------------------------------------
(* Opening the sink *)

\* the owner has put a batch together and goes on to act on it
Processed == opc # "clear" /\ opc' = "clear"

\* the batch just put together holds no Write and the writer is closed
FlushOnly == ~writer /\ n_writes(batch') = 0

\* the file was created or truncated, or the writer became open
Opened == ~writer /\ (writer' \/ data' # data)

\* the sink is opened only for a batch with a Write
OpenedForWrite == [][Opened => Processed /\ n_writes(batch') > 0]_vars

\* a batch without a Write on a closed writer touches nothing
FlushOnlyIsNoop == [][Processed /\ FlushOnly => UNCHANGED <<data, issued, writer, error>>]_vars

\* a Flush request is notified with the code the owner holds
FlushNotified ==
    [][\A c \in Clients :
          fstat'[c] # fstat[c] /\ fstat[c] = ONGOING =>
              /\ batch # <<>> /\ Head(batch) = FlushReq(c)
              /\ fstat'[c] = Code]_vars

\* The statement with no condition on the owner: whenever a batch
\* without a Write meets a closed writer, its requests complete with OK.
C33_Original ==
    /\ OpenedForWrite
    /\ FlushOnlyIsNoop
    /\ FlushNotified
    /\ [][Processed /\ FlushOnly => Code' = OK]_vars

\* C33: the sink is opened only when the owner processes a batch that
\* holds a Write while its writer is closed.  As long as no I/O error has
\* been recorded, a batch without a Write that meets a closed writer
\* changes neither the file nor the writer, and its requests complete
\* with OK, the Flush being notified with that code.
C33_LazyOpen ==
    /\ OpenedForWrite
    /\ FlushOnlyIsNoop
    /\ FlushNotified
    /\ [][Processed /\ FlushOnly /\ error = NoError => Code' = OK]_vars

\* a Flush alone in its batch is being completed on a closed writer whose
\* file has content, no error recorded
C33_Witness ==
    /\ opc = "clear" /\ ~writer /\ error = NoError
    /\ data # <<>>
    /\ \E c \in Clients : batch = <<FlushReq(c)>>


----------------------------------------------------------------------------
(* writers::Registry, its clones and the Root they share *)

\* the threads that may hold a Registry, the paths they ask for, and the
\* number of get_handle calls made in all
RegThreads == 3
NumPaths == 2
MaxGets == 4

Threads == 1..RegThreads
Paths == 1..NumPaths

\* no owner thread: the value of an absent entry of the Root's table
NoOwner == 0

\* no FileHandle: the value of a vacant entry of a Registry's local map
NoHandle == [raw |-> NoOwner, cur_batch |-> 0]

\* an unguarded Mutex: lock() succeeds whoever holds it
lock_unguarded(holder) == TRUE

\* Mutex::lock of RootImpl.handles: it is taken when nobody holds it
lock(holder) == holder = 0

\* RawHandle::into_handle: a FileHandle on the owner `raw` with a current
\* batch of its own, the freshly boxed WriteGuard b
into_handle(raw, b) == [raw |-> raw, cur_batch |-> b]

\* Registry::from_factory: the Root with an empty table and the stdout
\* owner (owner 1, serving path 0), and one Registry held by thread 1.
RegInit ==
    /\ registry = [st |-> "live",
              handles |-> [p \in Paths |-> NoOwner],
              mutex |-> 0,
              spawned |-> <<0>>,
              boxes |-> 1,
              held |-> {1},
              local |-> [t \in Threads |-> [p \in Paths |-> NoHandle]],
              stdout |-> [t \in Threads |-> IF t = 1 THEN into_handle(1, 1) ELSE NoHandle],
              at |-> [t \in Threads |-> [pos |-> "idle", path |-> 0, raw |-> NoOwner]],
              gets |-> 0]
    /\ text = <<>> /\ tcur = 0 /\ prev_tok = "None" /\ toks = <<>> /\ lres = [kind |-> "idle"]
    /\ lit = <<>> /\ parsed = "unparsed"
    /\ WIdle /\ PIdle /\ GIdle

RegUnchanged == UNCHANGED <<wvars, pvars, lvars, qvars, gvars>>

\* impl Clone for Registry, run by thread t for a new thread u: the Arc of
\* the Root is shared, the local map is new, stdout is a new FileHandle on
\* the same raw handle.
RegClone(t, u) ==
    /\ registry.st = "live"
    /\ t \in registry.held /\ u \notin registry.held /\ registry.at[t].pos = "idle"
    /\ registry' = [registry EXCEPT !.held = @ \cup {u},
                          !.local[u] = [p \in Paths |-> NoHandle],
                          !.stdout[u] = into_handle(registry.stdout[t].raw, registry.boxes + 1),
                          !.boxes = @ + 1]
    /\ RegUnchanged

\* Registry::get_handle(Some(path)) up to the call of global.get_handle:
\* an occupied entry of the local map is returned as it is.
RegGet(t, p) ==
    /\ registry.st = "live"
    /\ t \in registry.held /\ registry.at[t].pos = "idle" /\ registry.gets < MaxGets
    /\ registry' = [registry EXCEPT !.gets = @ + 1,
                          !.at[t] = IF registry.local[t][p] # NoHandle
                                    THEN [pos |-> "idle", path |-> p, raw |-> registry.local[t][p].raw]
                                    ELSE [pos |-> "lock", path |-> p, raw |-> NoOwner]]
    /\ RegUnchanged

\* Root::get_handle: self.handles.lock()
RootLock(t) ==
    /\ registry.st = "live"
    /\ registry.at[t].pos = "lock" /\ lock(registry.mutex)
    /\ registry' = [registry EXCEPT !.mutex = t, !.at[t].pos = "find"]
    /\ RegUnchanged

\* Root::get_handle: handles.get(fname); a handle found is cloned and
\* returned, which releases the mutex.
RootFind(t) ==
    /\ registry.st = "live"
    /\ registry.at[t].pos = "find"
    /\ LET h == registry.handles[registry.at[t].path]
       IN  registry' = IF h # NoOwner
                  THEN [registry EXCEPT !.mutex = 0, !.at[t].pos = "insert", !.at[t].raw = h]
                  ELSE [registry EXCEPT !.at[t].pos = "build"]
    /\ RegUnchanged

\* Root::get_handle: build_handle (a new channel and a new owner thread),
\* handles.insert, return, which releases the mutex.
RootBuild(t) ==
    /\ registry.st = "live"
    /\ registry.at[t].pos = "build"
    /\ LET o == Len(registry.spawned) + 1
       IN  registry' = [registry EXCEPT !.spawned = Append(@, registry.at[t].path),
                              !.handles[registry.at[t].path] = o,
                              !.mutex = 0,
                              !.at[t].pos = "insert", !.at[t].raw = o]
    /\ RegUnchanged

\* Registry::get_handle: v.insert(raw.into_handle())
LocalInsert(t) ==
    /\ registry.st = "live"
    /\ registry.at[t].pos = "insert"
    /\ registry' = [registry EXCEPT !.local[t][registry.at[t].path] = into_handle(registry.at[t].raw, registry.boxes + 1),
                          !.boxes = @ + 1,
                          !.at[t].pos = "idle"]
    /\ RegUnchanged

RegNext ==
    \/ \E t \in Threads, u \in Threads : RegClone(t, u)
    \/ \E t \in Threads, p \in Paths : RegGet(t, p)
    \/ \E t \in Threads : RootLock(t)
    \/ \E t \in Threads : RootFind(t)
    \/ \E t \in Threads : RootBuild(t)
    \/ \E t \in Threads : LocalInsert(t)

RegSpec == RegInit /\ [][RegNext]_vars

\* the FileHandles that exist: those of the local maps and the stdouts
FileHandles ==
    {<<t, p>> \in Threads \X (Paths \cup {0}) :
        IF p = 0 THEN registry.stdout[t] # NoHandle ELSE registry.local[t][p] # NoHandle}

HandleAt(k) == IF k[2] = 0 THEN registry.stdout[k[1]] ELSE registry.local[k[1]][k[2]]

\* at most one owner thread was ever spawned for a path
OneOwnerPerPath ==
    \A i, j \in DOMAIN registry.spawned : registry.spawned[i] = registry.spawned[j] => i = j

\* every handle on a path sends to the owner the Root's table names for it
SameOwner ==
    \A k \in FileHandles :
        /\ registry.spawned[HandleAt(k).raw] = k[2]
        /\ k[2] # 0 => HandleAt(k).raw = registry.handles[k[2]]

\* an owner is spawned only by the thread that holds the Root's mutex
SpawnedUnderMutex ==
    [][registry.spawned' # registry.spawned =>
          /\ registry.mutex \in Threads
          /\ registry.at[registry.mutex].pos = "build"
          /\ registry.at'[registry.mutex].pos = "insert"]_vars

\* a Registry that has just been cloned has an empty local map
CloneStartsEmpty ==
    [][\A u \in Threads :
          u \notin registry.held /\ u \in registry.held' =>
              \A p \in Paths : registry.local'[u][p] = NoHandle]_vars

\* no two FileHandles share their current batch
OwnBuffers ==
    \A k, l \in FileHandles : HandleAt(k).cur_batch = HandleAt(l).cur_batch => k = l

\* C34: at most one owner thread and channel is created per path, under
\* the Root's mutex, whatever the interleaving of the get_handle calls of
\* a Registry and its clones; every handle on the path sends to that
\* owner; a clone starts with an empty local map and no two handles share
\* a batching buffer.
C34_OneOwnerPerPath ==
    /\ [](registry.st = "live" => OneOwnerPerPath /\ SameOwner /\ OwnBuffers)
    /\ SpawnedUnderMutex
    /\ CloneStartsEmpty

\* two Registries hold a handle on the same path while a third thread
\* waits for the mutex
C34_Witness ==
    /\ registry.st = "live"
    /\ \E t, u, w \in Threads, p \in Paths :
          /\ t # u /\ w \notin {t, u}
          /\ registry.local[t][p] # NoHandle /\ registry.local[u][p] # NoHandle
          /\ registry.at[w].pos = "lock"


----------------------------------------------------------------------------
(* FileHandle::write and the sealing of the current batch *)

\* handle c begins a call of write (its byte count moves on)
WriteCall(c) == pc[c] = "idle" /\ op'[c] = "write" /\ wcount'[c] # wcount[c]

\* the number of bytes in the current batch of handle c
Buffered(c) == Len(heap[c][cur_batch[c]].data)

\* the bytes of the write call handle c begins
Payload(c) == Str(wcount[c], arg'[c].n, arg'[c].append)

\* the bytes of the call fit into the current batch
WriteFits(c) == arg'[c].n + Buffered(c) <= BUFFER_SIZE

\* clear_guards finds an in-flight guard with status ERROR
GuardFailed(c) == clear_guards(guards[c], old_guards[c], heap[c]).err

\* a write that fits, or that meets an empty batch, sends nothing and
\* extends the current batch
WriteExtends ==
    [][\A c \in Clients :
          WriteCall(c) /\ (WriteFits(c) \/ Buffered(c) = 0) =>
              /\ pc'[c] = "idle" /\ ret'[c] = Ok
              /\ chan' = chan
              /\ cur_batch'[c] = cur_batch[c] /\ guards'[c] = guards[c]
              /\ heap'[c][cur_batch[c]].data = heap[c][cur_batch[c]].data \o Payload(c)]_vars

\* the send of a sealing write: one Write request for the current batch,
\* the sealed guard joins the in-flight FIFO, the new bytes make up the
\* new current batch
SealSends ==
    [][\A c \in Clients :
          pc[c] = "send_write" /\ op[c] = "write" /\ pc'[c] = "idle" =>
              /\ chan' = Append(chan, [type |-> "Write", c |-> c, g |-> cur_batch[c],
                                       append |-> heap[c][cur_batch[c]].append,
                                       size |-> Buffered(c)])
              /\ Buffered(c) > 0
              /\ guards'[c] = Append(guards[c], cur_batch[c])
              /\ cur_batch'[c] # cur_batch[c]
              /\ heap'[c][cur_batch'[c]].data =
                     Str(wcount[c] - arg[c].n, arg[c].n, arg[c].append)
              /\ ret'[c] = Ok]_vars

\* no Write request carries an empty payload
NoEmptyWrite ==
    /\ \A i \in 1..Len(chan) : chan[i].type = "Write" => chan[i].size > 0
    /\ \A i \in 1..Len(batch) : batch[i].type = "Write" => batch[i].size > 0

\* The statement with no condition on the in-flight guards: every write
\* that does not fit a non-empty batch seals it.
C35_Original ==
    /\ WriteExtends
    /\ SealSends
    /\ []NoEmptyWrite
    /\ [][\A c \in Clients :
            WriteCall(c) /\ ~WriteFits(c) /\ Buffered(c) > 0 => pc'[c] = "send_write"]_vars

\* C35: a write of n bytes on a handle whose current batch holds c bytes
\* sends nothing when n + c <= BUFFER_SIZE; otherwise, if c > 0, the call
\* either finds a failed in-flight guard and returns the error, sending
\* nothing and leaving the handle as it is, or sends exactly one Write
\* request with those c bytes and appends the sealed guard to the FIFO;
\* except in the error case the n bytes then go into the current batch;
\* and no Write request with an empty payload is ever sent.
C35_SealOnOverflow ==
    /\ WriteExtends
    /\ SealSends
    /\ []NoEmptyWrite
    /\ [][\A c \in Clients :
            WriteCall(c) /\ ~WriteFits(c) /\ Buffered(c) > 0 =>
                IF GuardFailed(c)
                THEN /\ pc'[c] = "idle" /\ ret'[c] # Ok
                     /\ chan' = chan /\ UNCHANGED hvars
                ELSE pc'[c] = "send_write"]_vars

\* a write has just sealed a batch: its Write request is the last of the
\* channel, its guard the last of the FIFO, and the new current batch
\* holds the bytes of the call
C35_Witness ==
    \E c \in Clients :
        /\ op[c] = "write" /\ pc[c] = "idle" /\ ret[c] = Ok
        /\ guards[c] # <<>> /\ chan # <<>>
        /\ Last(chan).type = "Write" /\ Last(chan).c = c /\ Last(chan).g = Last(guards[c])
        /\ Len(heap[c][cur_batch[c]].data) = arg[c].n


----------------------------------------------------------------------------
(* Keywords, unknown characters and words that begin with a keyword *)

\* the rows of the keyword table that are a prefix of the text at offset s
PrefixesAt(s) ==
    {k \in KEYWORDS : /\ s + Len(k.bs) <= Len(text)
                      /\ slice(text, s, s + Len(k.bs)) = k.bs}

\* keyword matching applies at offset s after a token of kind prev: the
\* char is no string opener and no '/' in regex position
KeywordApplies(s, prev) ==
    /\ ~ByteIs(s, "\"")
    /\ ~(ByteIs(s, "/") /\ prev \notin DivContext)

\* C36: where keyword matching applies and some row of the keyword table
\* is a prefix of the remaining input, the token emitted is the longest
\* such row (so "==" is one EQ, not two Assign, and "/=" is DivAssign), and
\* the stream does not stop there.
C36_LongestKeyword ==
    /\ \A i \in 1..Len(toks) :
          LET s == toks[i].l.offset
          IN  KeywordApplies(s, PrevKind(i)) /\ PrefixesAt(s) # {} =>
                  \E k \in PrefixesAt(s) :
                      /\ \A j \in PrefixesAt(s) : Len(j.bs) <= Len(k.bs)
                      /\ TokKind(i) = k.tok
                      /\ toks[i].r.offset = s + Len(k.bs)
    /\ lres.kind \in {"None", "panic"} /\ lres.at < Len(text)
          /\ KeywordApplies(lres.at, LastKind) => PrefixesAt(lres.at) = {}

\* a DivAssign after an operand, at an offset where the shorter row "/"
\* of the table is a prefix too, with a token after it
C36_Witness ==
    \E i \in 1..Len(toks) :
        /\ TokKind(i) = "DivAssign" /\ PrevKind(i) \in DivContext
        /\ Cardinality(PrefixesAt(toks[i].l.offset)) = 2
        /\ Len(toks) > i


\* C39: next returns None only when nothing but whitespace and comments
\* is left of the input, that is, when advance has reached the end of the
\* text.
C39_NoneOnlyAtEnd == lres.kind = "None" => lres.at >= Len(text)

\* the keywords made of identifier characters only
WordKeywords == {k \in KEYWORDS : \A i \in 1..Len(k.bs) : is_id_body(k.bs[i])}

\* the word (maximal run of identifier-body chars) at offset s begins with
\* a keyword and goes on
BeginsWithKeyword(s) ==
    \E k \in WordKeywords :
        /\ k \in PrefixesAt(s)
        /\ IdRunEnd(s) > s + Len(k.bs)

\* C40: a word that begins with the letters of a keyword and goes on with
\* identifier characters is one Ident or CallStart token for the whole
\* word.
C40_KeywordPrefixedWord ==
    \A i \in 1..Len(toks) :
        LET s == toks[i].l.offset
            e == IdRunEnd(s)
        IN  BeginsWithKeyword(s) /\ is_char_boundary(text, e) =>
                /\ TokKind(i) \in {"Ident", "CallStart"}
                /\ toks[i].tok.s = slice(text, s, e)
                /\ toks[i].r.offset = (IF ByteIs(e, "(") THEN e + 1 ELSE e)


----------------------------------------------------------------------------
(* run_main under fair scheduling *)

\* a step of the main thread
MainStep ==
    \/ RunSerial
    \/ RunBegin
    \/ FlushStdout
    \/ Spawn
    \/ MainLoopStart
    \/ MainLoopReturn
    \/ Combine
    \/ RunEnd
    \/ Join

\* a step of the worker of shard i
WorkerStep(i) ==
    /\ i \in Shards
    /\ \/ WorkerReturn(i)
       \/ WorkerSend(i)
       \/ WorkerPanic(i)

\* Every thread that can take a step is scheduled, and every call of
\* main_func ends: by returning, or in a worker by a panic.
ParFairSpec ==
    /\ ParInit
    /\ [][PNext]_vars
    /\ WF_vars(MainStep)
    /\ \A i \in 0..(MaxWorkers - 1) : WF_vars(WorkerStep(i))

\* run_main has returned
Returned_run_main == mpc \in {"ok", "err"}

\* a worker whose main_func has returned finds room in the channel
SendNeverBlocks ==
    \A i \in Shards : wst[i].st = "returned" => Len(results) < bounded(cfg.nreads)

\* the receive loop is over as soon as every worker has sent or panicked
\* and the results sent are combined
RecvLoopEnds ==
    (mpc = "recv" /\ \A i \in Shards : wst[i].st \in {"sent", "panicked"})
        ~> mpc # "recv"

\* C38: when every main_loop invocation ends, run_main returns: no worker
\* ever finds the result channel full, and the receive loop of the main
\* thread ends once every worker has sent its result or panicked.
C38_ParTerminates ==
    /\ []SendNeverBlocks
    /\ RecvLoopEnds
    /\ <>Returned_run_main

\* every worker has sent its result while the main thread is still inside
\* its own main_loop: the channel holds one result per worker
C38_Witness ==
    /\ mpc = "main_loop"
    /\ cfg.nreads = MaxWorkers - 1
    /\ Len(results) = cfg.nreads


----------------------------------------------------------------------------
(* The error a client reads *)

\* handle c can see status ERROR: on one of its guards, or on its Flush
\* request
SeesError(c) ==
    \/ fstat[c] = ERROR
    \/ \E a \in GuardIds : heap[c][a].status = ERROR

\* C37: when a handle can see status ERROR on a write guard or on its
\* Flush request, the error slot holds the owner's I/O error; a call that
\* fails returns that error, never the message of read_error's fallback.
C37_ErrorInstalled ==
    /\ \A c \in Clients : SeesError(c) => error # NoError
    /\ \A c \in Clients : ret[c] # Ok => ret[c] = error /\ ret[c] = POISON_MSG
    /\ \A c \in Clients : ret[c] # BAD_SHUTDOWN_MSG

\* one handle has an in-flight guard with status ERROR, which its next
\* call will find, and another handle's flush has seen ERROR on its Flush
\* request and returned the stored error
C37_Witness ==
    \E c, d \in Clients :
        /\ c # d
        /\ \E a \in Range(guards[c]) : heap[c][a].status = ERROR
        /\ op[d] = "flush" /\ pc[d] = "idle" /\ ret[d] = POISON_MSG
        /\ error = POISON_MSG

====
